---- MODULE Spec2Model ----
(***************************************************************************)
(* The blog-generation job pipeline of habittohelper: the step dispatcher  *)
(* (processOneStep), the Research / Analyze / Write stage handlers, the    *)
(* batch / job / blog store, the SEO scorer and the link placer.           *)
(*                                                                         *)
(* Text is modelled as a sequence of atoms.  An atom is a run of           *)
(* characters that the program never looks inside: a vocabulary word, one  *)
(* piece of link markup, one piece of a URL, a paragraph break, or a run   *)
(* of filler prose.  CharLen gives the number of UTF-16 code units the     *)
(* atom stands for, so that String.length, String.includes, String.split,  *)
(* String.replace and the regular expressions of the source are computed   *)
(* on atoms the way the source computes them on characters.  Japanese      *)
(* words are written in romaji; the comments give the original.            *)
(***************************************************************************)
EXTENDS Integers, Sequences, FiniteSets, TLC

\* ------------------------------------------------------------------------
\* Bounds of the model
\* ------------------------------------------------------------------------
\* jobs (keywords) submitted in the batch under test
NumJobs == 2
\* dispatcher invocations that may be in flight at once in SpecConc
NumInv == 2
\* store calls that may fail, and calls that may be killed, in one run
MaxFaults == 1
\* overlapping calls: how often a call in progress is overtaken by another
MaxSwitches == 1

\* ------------------------------------------------------------------------
\* Program constants
\* ------------------------------------------------------------------------
MIN_ACCEPTABLE_SCORE == 60
\* suggestLinks (library): paragraphs shorter than this get no link
MinParagraphLen == 50
\* suggestLinks (library): .slice(0, 6)
MaxLinks == 6

\* null in a string column or variable
NULL == "null"
\* null in a column or variable that holds a number or an object; a value
\* that is there is Some(x)
None == << >>
Some(x) == << x >>
Val(o) == o[1]

\* ------------------------------------------------------------------------
\* Text as atoms
\* ------------------------------------------------------------------------
\* the paragraph separator '\n\n'
PB == "\n\n"

\* String.length of the characters an atom stands for.
\*   filler50 : 50 characters of prose with no vocabulary word in it
\*   filler30 : 30 such characters
\*   chokin = 貯金, kinri = 金利, nijudai = 20代, setsuyaku = 節約,
\*   toushi = 投資, kuchikomi = 口コミ, apuri = アプリ, soudan = 相談,
\*   chochiku = 貯蓄, kouza = 口座, imasugu = 今すぐ, danzen = 断然,
\*   zettai = 絶対, ni = に, osusume = おすすめ,
\*   sentakushinohitotsu = 選択肢の一つ
\* the markup atoms "[", "]", "(", ")" and "/" are one character each
CharLen(a) ==
    CASE a = PB -> 2
      [] a = "filler50" -> 50
      [] a = "filler30" -> 30
      [] a = "chokin" -> 2
      [] a = "kinri" -> 2
      [] a = "nijudai" -> 3
      [] a = "setsuyaku" -> 2
      [] a = "toushi" -> 2
      [] a = "kuchikomi" -> 3
      [] a = "apuri" -> 3
      [] a = "soudan" -> 2
      [] a = "chochiku" -> 2
      [] a = "kouza" -> 2
      [] a = "imasugu" -> 3
      [] a = "danzen" -> 2
      [] a = "zettai" -> 2
      [] a = "osusume" -> 4
      [] a = "sentakushinohitotsu" -> 6
      [] a = "Habitto" -> 7
      [] a = "habitto" -> 7
      [] a = "https://" -> 8
      [] a = "http://" -> 7
      [] a = "card" -> 4
      [] a = "www." -> 4
      [] a = ".com" -> 4
      [] a = "account" -> 7
      [] a = "app" -> 3
      [] a = "advisor" -> 7
      [] a = "people-like-you" -> 15
      [] OTHER -> 1

RECURSIVE StrLength(_)
\* String.prototype.length
StrLength(text) ==
    IF text = << >> THEN 0 ELSE CharLen(Head(text)) + StrLength(Tail(text))

\* String.prototype.toLowerCase on one atom
LowerAtom(a) == IF a = "Habitto" THEN "habitto" ELSE a

\* String.prototype.toLowerCase
ToLowerCase(text) == [i \in 1..Len(text) |-> LowerAtom(text[i])]

\* TRUE iff pat occurs in text at position i
MatchAt(text, pat, i) ==
    /\ i >= 1
    /\ i + Len(pat) - 1 <= Len(text)
    /\ \A k \in 1..Len(pat) : text[i + k - 1] = pat[k]

\* the least element of a set of positive integers, 0 for the empty set
Least(S) == IF S = {} THEN 0 ELSE CHOOSE i \in S : \A k \in S : i <= k

\* String.prototype.indexOf, 1-based, 0 when absent
IndexOf(text, pat, from) ==
    Least({i \in from..Len(text) : MatchAt(text, pat, i)})

\* String.prototype.includes
Includes(text, pat) == IndexOf(text, pat, 1) # 0

RECURSIVE SplitFrom(_, _)
\* String.prototype.split('\n\n'): the paragraphs of a text
SplitFrom(text, acc) ==
    IF text = << >> THEN << acc >>
    ELSE IF Head(text) = PB THEN << acc >> \o SplitFrom(Tail(text), << >>)
    ELSE SplitFrom(Tail(text), Append(acc, Head(text)))

Split(text) == SplitFrom(text, << >>)

RECURSIVE Join(_)
\* Array.prototype.join('\n\n')
Join(paras) ==
    IF paras = << >> THEN << >>
    ELSE IF Len(paras) = 1 THEN paras[1]
    ELSE paras[1] \o << PB >> \o Join(Tail(paras))

\* text with the Len(pat) atoms at position i replaced by repl; text when i = 0
ReplaceAt(text, i, pat, repl) ==
    IF i = 0 THEN text
    ELSE SubSeq(text, 1, i - 1) \o repl \o SubSeq(text, i + Len(pat), Len(text))

\* String.prototype.replace(pattern, replacement) with a string pattern:
\* replaces the first occurrence only
ReplaceFirst(text, pat, repl) == ReplaceAt(text, IndexOf(text, pat, 1), pat, repl)

\* `[${anchorText}](${url})`
Markup(anchor, url) == << "[" >> \o anchor \o << "]", "(" >> \o url \o << ")" >>


\* ------------------------------------------------------------------------
\* Generic helpers
\* ------------------------------------------------------------------------
RECURSIVE InsertStable(_, _)
\* the pair x = << key, element >> goes in front of the first pair whose key
\* is strictly greater
InsertStable(x, sorted) ==
    IF sorted = << >> THEN << x >>
    ELSE IF x[1] < Head(sorted)[1] THEN << x >> \o sorted
    ELSE << Head(sorted) >> \o InsertStable(x, Tail(sorted))

RECURSIVE SortFrom(_, _)
SortFrom(rest, sorted) ==
    IF rest = << >> THEN sorted
    ELSE SortFrom(Tail(rest), InsertStable(Head(rest), sorted))

\* the elements of a sequence of pairs << key, element >>
Seconds(pairs) == [i \in 1..Len(pairs) |-> pairs[i][2]]

\* Array.prototype.sort((a, b) => key(a) - key(b)): stable, ascending in
\* the integer keys; keys[i] is the key of s[i]
SortByKey(s, keys) ==
    Seconds(SortFrom([i \in 1..Len(s) |-> << keys[i], s[i] >>], << >>))

\* the element of list at index i, << >> for i = 0
ElementOr(list, i) == IF i = 0 THEN << >> ELSE list[i]

\* the first element of list that occurs in text, << >> when none does
FirstIncluded(text, list) ==
    ElementOr(list, Least({i \in 1..Len(list) : Includes(text, list[i])}))

Min(a, b) == IF a < b THEN a ELSE b

\* ------------------------------------------------------------------------
\* Internal-link catalog and Link Placer (library)
\* ------------------------------------------------------------------------
UrlAccount == << "https://", "www.", "habitto", ".com", "/", "account", "/" >>
UrlCard == << "https://", "www.", "habitto", ".com", "/", "card", "/" >>
UrlAdvisor == << "https://", "www.", "habitto", ".com", "/", "advisor", "/" >>
UrlPeople == << "https://", "www.", "habitto", ".com", "/", "people-like-you", "/" >>
UrlHome == << "https://", "www.", "habitto", ".com", "/" >>
UrlApp == << "https://", "www.", "habitto", ".com", "/", "app", "/" >>

\* chochiku kouza = 貯蓄口座, nenri = 年利, yokin = 預金, tameru = 貯める,
\* risoku = 利息, kou kinri = 高金利, teiki yokin = 定期預金,
\* nettoginkou = ネット銀行, futsuu yokin = 普通預金, no = の, de = で,
\* joukennashi = 条件なし, debitto kaado = デビットカード,
\* kyasshubakku = キャッシュバック, kangen = 還元, tsukaisugi = 使いすぎ,
\* kyasshuresu = キャッシュレス, kessai = 決済, tsuki = 付き,
\* adobaizaa = アドバイザー, muryou = 無料, hoken = 保険,
\* raifupuran = ライフプラン, toushi shintaku = 投資信託,
\* rougoshikin = 老後資金, fainansharu = ファイナンシャル, puro ni = プロに,
\* rebyuu = レビュー, taikendan = 体験談, hyouban = 評判, riyousha = 利用者,
\* yuuzaa = ユーザー, jissai... = 実際に使っている人, koe = 声,
\* okyakusama = お客様, habito = ハビト, koushikisaito = 公式サイト,
\* daunroodo = ダウンロード, sumaho = スマホ, wo = を, kanri = 管理
HABITTO_PAGES ==
    << [url |-> UrlAccount, priority |-> 1,
        keywords |-> << << "chochiku", "kouza" >>, << "kinri" >>, << "0.5%" >>,
                        << "nenri" >>, << "yokin" >>, << "tameru" >>, << "risoku" >>,
                        << "kou", "kinri" >>, << "teiki", "yokin" >>,
                        << "nettoginkou" >>, << "futsuu", "yokin" >> >>,
        anchors |-> << << "Habitto", "no", "chochiku", "kouza" >>,
                       << "nenri", "0.5%", "no", "kouza" >>,
                       << "kou", "kinri", "no", "chochiku", "kouza" >>,
                       << "joukennashi", "de", "nenri", "0.5%" >> >>],
       [url |-> UrlCard, priority |-> 1,
        keywords |-> << << "debitto", "kaado" >>, << "kyasshubakku" >>, << "0.8%" >>,
                        << "kangen" >>, << "Visa" >>, << "ATM" >>, << "tsukaisugi" >>,
                        << "kyasshuresu" >>, << "kessai" >> >>,
        anchors |-> << << "Habitto", "no", "debitto", "kaado" >>,
                       << "0.8%", "kangen", "no", "debitto", "kaado" >>,
                       << "kyasshubakku", "tsuki", "kaado" >> >>],
       [url |-> UrlAdvisor, priority |-> 1,
        keywords |-> << << "adobaizaa" >>, << "soudan" >>, << "muryou", "soudan" >>,
                        << "FP" >>, << "NISA" >>, << "hoken" >>, << "raifupuran" >>,
                        << "toushi", "shintaku" >>, << "iDeCo" >>, << "rougoshikin" >>,
                        << "fainansharu" >> >>,
        anchors |-> << << "Habitto", "adobaizaa" >>,
                       << "muryou", "no", "fainansharu", "adobaizaa" >>,
                       << "puro", "ni", "soudan" >> >>],
       [url |-> UrlPeople, priority |-> 2,
        keywords |-> << << "rebyuu" >>, << "kuchikomi" >>, << "taikendan" >>,
                        << "hyouban" >>, << "riyousha" >>, << "yuuzaa" >> >>,
        anchors |-> << << "jissainitsukatteiruhito", "no", "koe" >>,
                       << "okyakusama", "no", "taikendan" >>,
                       << "Habitto", "yuuzaa", "no", "koe" >> >>],
       [url |-> UrlHome, priority |-> 3,
        keywords |-> << << "Habitto" >>, << "habito" >> >>,
        anchors |-> << << "Habitto" >>, << "Habitto", "koushikisaito" >> >>],
       [url |-> UrlApp, priority |-> 3,
        keywords |-> << << "apuri" >>, << "daunroodo" >>, << "iOS" >>,
                        << "Android" >>, << "sumaho" >> >>,
        anchors |-> << << "Habitto", "apuri" >>, << "apuri", "wo", "daunroodo" >>,
                       << "sumaho", "de", "kanri" >> >>] >>

\* paragraph.startsWith('#')
StartsWithHash(par) == par # << >> /\ Head(par) = "#"

\* paragraph.includes('](http')
HasLinkMarkup(par) ==
    \/ Includes(par, << "]", "(", "https://" >>)
    \/ Includes(par, << "]", "(", "http://" >>)

\* variant of PickPage without the check of usedUrls; C16 must tell it from
\* the loop of the source
PickPageAnyUrl(par, usedUrls, isSecondHalf) ==
    Least({p \in 1..Len(HABITTO_PAGES) :
             /\ ~(HABITTO_PAGES[p].priority = 1 /\ ~isSecondHalf)
             /\ FirstIncluded(par, HABITTO_PAGES[p].keywords) # << >>})

\* the page the inner loop of suggestLinks settles on for one paragraph:
\* the first page, in catalog order, that is unused, allowed in this half of
\* the article and has a keyword in the paragraph; 0 when there is none
PickPage(par, usedUrls, isSecondHalf) ==
    Least({p \in 1..Len(HABITTO_PAGES) :
             /\ HABITTO_PAGES[p].url \notin usedUrls
             /\ ~(HABITTO_PAGES[p].priority = 1 /\ ~isSecondHalf)
             /\ FirstIncluded(par, HABITTO_PAGES[p].keywords) # << >>})

\* the paragraphs the loop passes over: headings, short ones, linked ones
Skipped(paragraph) ==
    \/ StartsWithHash(paragraph)
    \/ StrLength(paragraph) < MinParagraphLen
    \/ HasLinkMarkup(paragraph)

\* page.anchors.find(a => paragraph.includes(a)) || keyword
AnchorOr(found, keyword) == IF found # << >> THEN found ELSE keyword

\* the suggestion pushed for a paragraph and the page matched in it
Suggestion(paragraph, index, page) ==
    [paragraph |-> index,
     anchorText |-> AnchorOr(FirstIncluded(paragraph, page.anchors),
                             FirstIncluded(paragraph, page.keywords)),
     url |-> page.url, priority |-> page.priority]

RECURSIVE SuggestFrom(_, _, _, _)
\* one round of the paragraph loop, p the page picked for the paragraph
SuggestStep(paragraphs, index, usedUrls, suggestions, p) ==
    IF p = 0
    THEN SuggestFrom(paragraphs, index + 1, usedUrls, suggestions)
    ELSE SuggestFrom(paragraphs, index + 1,
                     usedUrls \cup {HABITTO_PAGES[p].url},
                     Append(suggestions,
                            Suggestion(paragraphs[index + 1], index,
                                       HABITTO_PAGES[p])))

\* the paragraph loop of suggestLinks; index is the 0-based paragraph index
SuggestFrom(paragraphs, index, usedUrls, suggestions) ==
    IF index >= Len(paragraphs) THEN suggestions
    ELSE SuggestStep(paragraphs, index, usedUrls, suggestions,
                     IF Skipped(paragraphs[index + 1]) THEN 0
                     ELSE PickPage(paragraphs[index + 1], usedUrls,
                                   index >= Len(paragraphs) \div 2))

\* suggestions.sort((a, b) => a.priority - b.priority)
ByPriority(all) == SortByKey(all, [i \in 1..Len(all) |-> all[i].priority])

\* Array.prototype.slice(0, n)
Take(s, n) == SubSeq(s, 1, Min(Len(s), n))

\* suggestLinks of the library
suggestLinks(articleContent) ==
    Take(ByPriority(SuggestFrom(Split(articleContent), 0, {}, << >>)), MaxLinks)

RECURSIVE InsertEach(_, _)
InsertEach(paragraphs, sortedLinks) ==
    IF sortedLinks = << >> THEN paragraphs
    ELSE
      LET link == Head(sortedLinks)
          i == link.paragraph + 1
          skip == \/ i > Len(paragraphs)
                  \/ paragraphs[i] = << >>
                  \/ Includes(paragraphs[i],
                              << "]", "(" >> \o link.url \o << ")" >>)
      IN IF skip THEN InsertEach(paragraphs, Tail(sortedLinks))
         ELSE InsertEach(
                [paragraphs EXCEPT ![i] =
                   ReplaceFirst(@, link.anchorText, Markup(link.anchorText, link.url))],
                Tail(sortedLinks))

\* [...links].sort((a, b) => b.paragraph - a.paragraph)
ByParagraphDesc(links) ==
    SortByKey(links, [i \in 1..Len(links) |-> 0 - links[i].paragraph])

\* insertLinks
insertLinks(content, links) ==
    Join(InsertEach(Split(content), ByParagraphDesc(links)))

\* ------------------------------------------------------------------------
\* Link Placer (Edge Function)
\* ------------------------------------------------------------------------
\* paragraph.length < 30
EdgeMinParagraphLen == 30
\* if (suggestions.length >= 5) break
EdgeMaxLinks == 5
\* Math.abs(s.paragraph - opp.paragraph) < 3
NearbyParagraphs == 3
\* hasNearbyLink && suggestions.length >= 2
ClusteredLinks == 2

\* HABITTO_PAGES of the Edge Function: the first five pages of the
\* library's catalog, with the same urls, keywords and priorities
EDGE_HABITTO_PAGES == SubSeq(HABITTO_PAGES, 1, 5)

\* the paragraphs the first pass skips
EdgeSkipped(paragraph) ==
    \/ StartsWithHash(paragraph)
    \/ StrLength(paragraph) < EdgeMinParagraphLen
    \/ HasLinkMarkup(paragraph)

\* the opportunities of one paragraph: one per page with a keyword in it,
\* in catalog order, the anchor being the page's first keyword found
ParagraphOpportunities(paragraph, index) ==
    LET pages == SelectSeq(EDGE_HABITTO_PAGES,
                           LAMBDA page : FirstIncluded(paragraph, page.keywords) # << >>)
    IN [k \in 1..Len(pages) |->
          [paragraph |-> index,
           anchorText |-> FirstIncluded(paragraph, pages[k].keywords),
           url |-> pages[k].url, priority |-> pages[k].priority]]

RECURSIVE AllOpportunities(_, _)
\* first pass of suggestLinks; index is the 0-based paragraph index
AllOpportunities(paragraphs, index) ==
    IF index >= Len(paragraphs) THEN << >>
    ELSE (IF EdgeSkipped(paragraphs[index + 1]) THEN << >>
          ELSE ParagraphOpportunities(paragraphs[index + 1], index))
         \o AllOpportunities(paragraphs, index + 1)

\* allOpportunities.sort: by priority, then by paragraph; n is above every
\* paragraph index
SortedOpportunities(all, n) ==
    SortByKey(all, [i \in 1..Len(all) |-> all[i].priority * n + all[i].paragraph])

\* variant of HasNearbyLink that looks one paragraph less far
\* (Math.abs(...) < 2); C31 must tell it from the distance of the source
HasNearbyLinkWithin2(suggestions, opp) ==
    \E k \in 1..Len(suggestions) :
       /\ suggestions[k].paragraph - opp.paragraph < NearbyParagraphs - 1
       /\ opp.paragraph - suggestions[k].paragraph < NearbyParagraphs - 1

\* suggestions.some(s => Math.abs(s.paragraph - opp.paragraph) < 3)
HasNearbyLink(suggestions, opp) ==
    \E k \in 1..Len(suggestions) :
       /\ suggestions[k].paragraph - opp.paragraph < NearbyParagraphs
       /\ opp.paragraph - suggestions[k].paragraph < NearbyParagraphs

\* the opportunity without its priority: what suggestions.push receives
Pushed(opp) ==
    [paragraph |-> opp.paragraph, anchorText |-> opp.anchorText, url |-> opp.url]

RECURSIVE SelectLinks(_, _, _)
\* second pass of suggestLinks over the sorted opportunities
SelectLinks(sorted, suggestions, usedUrls) ==
    IF sorted = << >> THEN suggestions
    ELSE IF \/ Head(sorted).url \in usedUrls
            \/ /\ HasNearbyLink(suggestions, Head(sorted))
               /\ Len(suggestions) >= ClusteredLinks
    THEN SelectLinks(Tail(sorted), suggestions, usedUrls)
    ELSE IF Len(suggestions) + 1 >= EdgeMaxLinks
    THEN Append(suggestions, Pushed(Head(sorted)))
    ELSE SelectLinks(Tail(sorted), Append(suggestions, Pushed(Head(sorted))),
                     usedUrls \cup {Head(sorted).url})

\* suggestLinks of the Edge Function
EdgeSuggestLinks(articleContent) ==
    SelectLinks(SortedOpportunities(AllOpportunities(Split(articleContent), 0),
                                    Len(Split(articleContent)) + 1),
                << >>, {})

\* ------------------------------------------------------------------------
\* SEO Scorer
\* ------------------------------------------------------------------------
RECURSIVE CountFrom(_, _, _)
\* the matches from position i on, i the position of the first one
CountAt(text, pat, i) ==
    IF pat = << >> \/ i = 0 THEN 0 ELSE 1 + CountFrom(text, pat, i + Len(pat))

CountFrom(text, pat, from) == CountAt(text, pat, IndexOf(text, pat, from))

\* countOccurrences: content.match(new RegExp(escapeRegex(term), 'gi')),
\* the non-overlapping matches counted from the left, case-insensitive
countOccurrences(content, term) ==
    CountFrom(ToLowerCase(content), ToLowerCase(term), 1)

\* Array.prototype.slice(from, to) with 0-based from and exclusive to
Slice(s, from, to) ==
    SubSeq(s, from + 1, IF to < Len(s) THEN to ELSE Len(s))

RECURSIVE SumOver(_, _)
\* the sum of f[x] over the elements of a sequence of naturals
SumOver(s, i) == IF i > Len(s) THEN 0 ELSE s[i] + SumOver(s, i + 1)

\* variant of RoundDiv that truncates (Math.floor for Math.round); C14 must
\* tell it from the rounding of the source
FloorDiv(n, d) == n \div d

\* Math.round(n / d) for n >= 0, d > 0
RoundDiv(n, d) == (2 * n + d) \div (2 * d)

\* variant of CappedScore without the cap (criticalScore += count for every
\* count); C13 must tell it from the branches of the source
UncappedScore(contentLower, terms, cap) ==
    SumOver([i \in 1..Len(terms) |-> countOccurrences(contentLower, terms[i])], 1)

\* the points of a tier whose terms count up to cap occurrences each
CappedScore(contentLower, terms, cap) ==
    SumOver([i \in 1..Len(terms) |->
               Min(countOccurrences(contentLower, terms[i]), cap)], 1)

\* the points of the supporting tier: one per term that occurs
PresentScore(contentLower, terms) ==
    SumOver([i \in 1..Len(terms) |->
               IF Includes(contentLower, ToLowerCase(terms[i])) THEN 1 ELSE 0], 1)

\* variant of MissingTerms that flags absent terms only (no push in the
\* count >= 1 branch); C15 must tell it from the branches of the source
MissingTermsAbsent(contentLower, terms, need) ==
    SelectSeq(terms, LAMBDA t : countOccurrences(contentLower, t) = 0)

\* the terms of a tier with fewer than need occurrences
MissingTerms(contentLower, terms, need) ==
    SelectSeq(terms, LAMBDA t : countOccurrences(contentLower, t) < need)

\* max > 0 ? (score / max) * weight : weight, as numerator and denominator
PctNum(score, max, weight) == IF max > 0 THEN score * weight ELSE weight
PctDen(max) == IF max > 0 THEN max ELSE 1

\* Math.round(criticalPct + importantPct + supportingPct) for the fractions
\* cn / cd, in / id and sn / sd
RoundSum(cn, cd, in, id, sn, sd) ==
    RoundDiv(cn * id * sd + in * cd * sd + sn * cd * id, cd * id * sd)

\* the body of calculateScore for the three tiers
ScoreTiers(contentLower, criticalTerms, importantTerms, supportingTerms) ==
    [percentage |->
       RoundSum(PctNum(CappedScore(contentLower, criticalTerms, 3),
                       Len(criticalTerms) * 3, 50),
                PctDen(Len(criticalTerms) * 3),
                PctNum(CappedScore(contentLower, importantTerms, 2),
                       Len(importantTerms) * 2, 30),
                PctDen(Len(importantTerms) * 2),
                PctNum(PresentScore(contentLower, supportingTerms),
                       Len(supportingTerms), 20),
                PctDen(Len(supportingTerms))),
     missingTerms |->
       MissingTerms(contentLower, criticalTerms, 3)
       \o Slice(MissingTerms(contentLower, importantTerms, 1), 0, 5)]

\* criticalPct, importantPct and supportingPct of calculateScore, each as
\* << numerator, denominator >>
TierPcts(contentLower, criticalTerms, importantTerms, supportingTerms) ==
    [critical |-> << PctNum(CappedScore(contentLower, criticalTerms, 3),
                            Len(criticalTerms) * 3, 50),
                     PctDen(Len(criticalTerms) * 3) >>,
     important |-> << PctNum(CappedScore(contentLower, importantTerms, 2),
                             Len(importantTerms) * 2, 30),
                      PctDen(Len(importantTerms) * 2) >>,
     supporting |-> << PctNum(PresentScore(contentLower, supportingTerms),
                              Len(supportingTerms), 20),
                       PctDen(Len(supportingTerms)) >>]

\* the three contributions for a content and an analysis
Contributions(content, analysis) ==
    TierPcts(ToLowerCase(content),
             Slice(analysis.recommendedTerms, 0, 10),
             Slice(analysis.recommendedTerms, 10, 25),
             Slice(analysis.recommendedTerms, 25, Len(analysis.recommendedTerms)))

\* calculateScore: percentage and missingTerms
calculateScore(content, analysis) ==
    ScoreTiers(ToLowerCase(content),
               Slice(analysis.recommendedTerms, 0, 10),
               Slice(analysis.recommendedTerms, 10, 25),
               Slice(analysis.recommendedTerms, 25, Len(analysis.recommendedTerms)))

\* ------------------------------------------------------------------------
\* saveBlog: derived columns of a blog row
\* ------------------------------------------------------------------------
\* the least index > from at which text holds atom a, 0 when there is none
NextAtom(text, a, from) == Least({i \in (from + 1)..Len(text) : text[i] = a})

\* /\[([^\]]+)\]\((https?:\/\/[^)]+)\)/ at position i, with j the next "]"
\* and k the next ")" behind the scheme: TRUE iff the attempt matches
LinkAt(text, i, j, k) ==
    /\ i <= Len(text)
    /\ text[i] = "["
    /\ j > i + 1
    /\ j + 2 <= Len(text)
    /\ text[j + 1] = "("
    /\ text[j + 2] \in {"https://", "http://"}
    /\ k > j + 3

RECURSIVE LinkMatches(_, _)
\* one round of linkRegex.exec from position i
LinkStep(text, i, j, k) ==
    IF LinkAt(text, i, j, k)
    THEN << [text |-> SubSeq(text, i + 1, j - 1),
             url |-> SubSeq(text, j + 2, k - 1)] >>
         \o LinkMatches(text, k + 1)
    ELSE LinkMatches(text, i + 1)

\* the close of the parenthesis for the bracket that closes at j
LinkClose(text, i, j) == LinkStep(text, i, j, NextAtom(text, ")", j + 2))

\* linkRegex.exec in a loop: the matches from the left, each as
\* [text |-> match[1], url |-> match[2]]
LinkMatches(text, i) ==
    IF i > Len(text) THEN << >>
    ELSE LinkClose(text, i, NextAtom(text, "]", i))

\* match[2].includes('habitto.com')
IsInternal(m) == Includes(m.url, << "habitto", ".com" >>)

\* the urls of a sequence of matches
Urls(ms) == [i \in 1..Len(ms) |-> ms[i].url]

\* the internal_links column: match[2] of every match that includes
\* 'habitto.com', in document order
ExtractInternalLinks(content) ==
    Urls(SelectSeq(LinkMatches(content, 1), IsInternal))

\* variant of WordCount that counts atoms, not characters; C9 must tell it
\* from the length of the source
WordCountAtoms(content) == Len(content)

\* the word_count column: content.length
WordCount(content) == StrLength(content)

\* ------------------------------------------------------------------------
\* Content Post-Processor (Edge Function)
\* ------------------------------------------------------------------------
\* /\[([^\]]+)\]\((https:\/\/www\.habitto\.com[^)]+)\)/ at position i, with j
\* the next "]" and k the next ")" behind '.com': TRUE iff the attempt matches
HabittoLinkAt(text, i, j, k) ==
    /\ text[i] = "["
    /\ j > i + 1
    /\ j + 5 <= Len(text)
    /\ text[j + 1] = "("
    /\ SubSeq(text, j + 2, j + 5) = << "https://", "www.", "habitto", ".com" >>
    /\ k > j + 6

\* url.replace(/\/$/, '')
StripSlash(url) ==
    IF url # << >> /\ url[Len(url)] = "/" THEN SubSeq(url, 1, Len(url) - 1)
    ELSE url

RECURSIVE DedupeFrom(_, _, _)
\* one round of content.replace from position i: the callback keeps the
\* match of a url not seen before and returns match[1] for the others
DedupeStep(text, i, seenUrls, j, k) ==
    IF ~HabittoLinkAt(text, i, j, k)
    THEN << text[i] >> \o DedupeFrom(text, i + 1, seenUrls)
    ELSE (IF StripSlash(SubSeq(text, j + 2, k - 1)) \in seenUrls
          THEN SubSeq(text, i + 1, j - 1)
          ELSE SubSeq(text, i, k))
         \o DedupeFrom(text, k + 1,
                       seenUrls \cup {StripSlash(SubSeq(text, j + 2, k - 1))})

\* the close of the parenthesis for the bracket that closes at j
DedupeClose(text, i, seenUrls, j) ==
    DedupeStep(text, i, seenUrls, j, NextAtom(text, ")", j + 5))

\* content.replace(regex, callback) from position i on
DedupeFrom(text, i, seenUrls) ==
    IF i > Len(text) THEN << >>
    ELSE DedupeClose(text, i, seenUrls, NextAtom(text, "]", i))

\* dedupeInternalLinks
dedupeInternalLinks(content) == DedupeFrom(content, 1, {})

RECURSIVE RemoveCtaFrom(_, _)
\* one round of processed.replace(/\[今すぐ[^\]]*\]/g, '') at position i, j
\* the next "]".  The two patterns with '\[' need a backslash, which no
\* text of the model has
RemoveCtaStep(text, i, j) ==
    IF text[i] = "[" /\ j > i /\ text[i + 1] = "imasugu"
    THEN RemoveCtaFrom(text, j + 1)
    ELSE << text[i] >> \o RemoveCtaFrom(text, i + 1)

RemoveCtaFrom(text, i) ==
    IF i > Len(text) THEN << >>
    ELSE RemoveCtaStep(text, i, NextAtom(text, "]", i))

RECURSIVE SoftenFrom(_, _)
\* processed.replace(/(断然|絶対)(に)?おすすめ/g, '選択肢の一つ') from position
\* i.  The two patterns with 開設 and 申し込み need words no text of the
\* model has
SoftenFrom(text, i) ==
    IF i > Len(text) THEN << >>
    ELSE IF text[i] \in {"danzen", "zettai"} /\ MatchAt(text, << "ni", "osusume" >>, i + 1)
    THEN << "sentakushinohitotsu" >> \o SoftenFrom(text, i + 3)
    ELSE IF text[i] \in {"danzen", "zettai"} /\ MatchAt(text, << "osusume" >>, i + 1)
    THEN << "sentakushinohitotsu" >> \o SoftenFrom(text, i + 2)
    ELSE << text[i] >> \o SoftenFrom(text, i + 1)

RECURSIVE CollapseBreaks(_)
\* processed.replace(/\n\n\n+/g, '\n\n'): paragraph breaks in a row become
\* one.  The texts of the model have no single newline and no space
CollapseBreaks(text) ==
    IF Len(text) < 2 THEN text
    ELSE IF text[1] = PB /\ text[2] = PB THEN CollapseBreaks(Tail(text))
    ELSE << text[1] >> \o CollapseBreaks(Tail(text))

\* removePushyCTAs
removePushyCTAs(content) ==
    CollapseBreaks(SoftenFrom(RemoveCtaFrom(content, 1), 1))

\* postProcessContent(content, keyword).content
postProcessContent(content) == removePushyCTAs(dedupeInternalLinks(content))

\* requiredKeywords and optionalKeywords of validateBrandKeywords
RequiredKeywords ==
    << [keyword |-> << "okanewosodateru" >>, minCount |-> 2],
       [keyword |-> << "murinaku" >>, minCount |-> 1],
       [keyword |-> << "kotsukotsu" >>, minCount |-> 1],
       [keyword |-> << "joukennashi" >>, minCount |-> 1] >>
OptionalKeywords == << [keyword |-> << "otoku" >>, minCount |-> 1] >>

\* (content.match(new RegExp(escapeRegex(keyword), 'g')) || []).length: the
\* matches counted from the left, case-sensitive
BrandCount(content, keyword) == CountFrom(content, keyword, 1)

\* validateBrandKeywords: the required keywords with fewer matches than
\* their minimum are missing, the others and the optional ones that occur
\* are found; each entry is the keyword with its count
validateBrandKeywords(content) ==
    LET missing == SelectSeq(RequiredKeywords,
                     LAMBDA k : BrandCount(content, k.keyword) < k.minCount)
        found == SelectSeq(RequiredKeywords,
                     LAMBDA k : BrandCount(content, k.keyword) >= k.minCount)
                 \o SelectSeq(OptionalKeywords,
                     LAMBDA k : BrandCount(content, k.keyword) > 0)
        Counted(ks) == [n \in 1..Len(ks) |->
                          [keyword |-> ks[n].keyword,
                           count |-> BrandCount(content, ks[n].keyword)]]
    IN [isValid |-> missing = << >>,
        missingKeywords |-> Counted(missing),
        foundKeywords |-> Counted(found)]

\* ------------------------------------------------------------------------
\* What the Content Fetchers may return
\* ------------------------------------------------------------------------
F50 == "filler50"

\* the link '[金利](https://www.habitto.com/account/)' written by the model
KinriLink == Markup(<< "kinri" >>, UrlAccount)

\* writeBlog results.  kinri: a link keyword in the second half and one
\* recommended term once; sixty: the first recommended term three times;
\* linked: a draft that already links the account page and names a keyword
\* of that page in a later paragraph; cta: a draft with a bracketed call to
\* action between two paragraphs and a superlative; brand: a draft with
\* every required brand keyword as often as required; early: a link keyword
\* in the first half only
Drafts ==
    { [title |-> "kinri", metaDescription |-> "m",
       content |-> << F50, PB, F50, "kinri" >>],
      [title |-> "sixty", metaDescription |-> "m",
       content |-> << F50, "chokin", "chokin", "chokin" >>],
      [title |-> "linked", metaDescription |-> "m",
       content |-> KinriLink \o << F50, PB, F50, "chochiku", "kouza" >>],
      [title |-> "cta", metaDescription |-> "m",
       content |-> << F50, PB, "[", "imasugu", "kouza", "]", PB,
                      F50, "zettai", "osusume" >>],
      [title |-> "brand", metaDescription |-> "m",
       content |-> << F50, "okanewosodateru", "murinaku", "kotsukotsu", PB,
                      F50, "okanewosodateru", "joukennashi", "otoku" >>],
      [title |-> "early", metaDescription |-> "m",
       content |-> << F50, "kinri", PB, F50 >>] }

\* analyzeKeyword results: five recommended terms (all in the critical
\* tier); the brand name as the one recommended term
Analyses ==
    { [recommendedTerms |-> << << "chokin" >>, << "nijudai" >>, << "kinri" >>,
                               << "setsuyaku" >>, << "toushi" >> >>,
       competitorHeadings |-> << >>, wordCountTarget |-> 100, queryId |-> "q1"],
      [recommendedTerms |-> << << "habitto" >> >>,
       competitorHeadings |-> << >>, wordCountTarget |-> 100, queryId |-> "q2"] }

\* research() and analyzeResearch() return data.choices[0]?.message?.content || ''
ResearchTexts == {"raw", ""}
AnalysisTexts == {"brief", ""}

\* variant of Falsy that takes only null for absent, so that an empty text
\* passes; C25 must tell it from the test of the source
NullOnly(x) == x = NULL

\* JavaScript falsiness of a nullable string column
Falsy(x) == x = NULL \/ x = ""

\* ------------------------------------------------------------------------
\* Persisted state and invocations
\* ------------------------------------------------------------------------
\* batch 1 is the batch under test; batch 2 is another batch of the store
Batches == {1, 2}
\* jobs in creation order (created_at ascending = ascending id); the last
\* job belongs to batch 2
Jobs == 1..(NumJobs + 1)
JobBatch(j) == IF j <= NumJobs THEN 1 ELSE 2
Invocations == 1..NumInv

VARIABLES
    batches,   \* simple_batches: batch id -> row
    jobs,      \* simple_jobs: job id -> row
    blogs,     \* simple_blogs: the rows in insertion order
    inv,       \* the dispatcher invocations: program counter and locals
    faults,    \* store calls that failed and calls that were killed, so far
    sched,     \* overlapping calls: who took the last step, overtakings so far
    cfg,       \* the run's conditions: overlapping calls, faults allowed,
               \* whether the fetchers return one value or any of them, and
               \* whether the two dispatchers are being compared
    call       \* a function applied on its own (a pure function,
               \* processBatch, the two dispatchers side by side): its input
               \* and result

vars == << batches, jobs, blogs, inv, faults, sched, cfg, call >>

InProgress == {"researching", "analyzing", "writing"}
Terminal == {"completed", "failed"}

\* an invocation that is not running
Idle ==
    [pc |-> "idle", batchId |-> 0, useNeuronwriter |-> FALSE, job |-> 0,
     jobStatus |-> NULL, raw |-> NULL, analyzed |-> NULL, nw |-> None,
     blogResult |-> None, content |-> << >>, score |-> None, gens |-> 0,
     content_score |-> None, brandValidation |-> None,
     cur |-> 0, err |-> NULL, finalStatus |-> NULL, result |-> None]

InitBatches ==
    [b \in Batches |->
       [status |-> "pending",
        total_keywords |-> Cardinality({j \in Jobs : JobBatch(j) = b}),
        completed_keywords |-> 0, failed_keywords |-> 0]]

InitJobs ==
    [j \in Jobs |->
       [batch_id |-> JobBatch(j), status |-> "pending", error |-> NULL,
        research_raw |-> NULL, research_analyzed |-> NULL,
        neuronwriter_data |-> None, started_at |-> FALSE,
        completed_at |-> FALSE]]

\* no pure function is applied on its own
NoCall == [fn |-> "none", kind |-> "none", input |-> << >>, result |-> << >>]

\* createBatch: every job pending, counters 0, batch pending
InitStore ==
    /\ batches = InitBatches
    /\ jobs = InitJobs
    /\ blogs = << >>
    /\ inv = [i \in Invocations |-> Idle]
    /\ faults = 0
    /\ sched = [turn |-> 0, switches |-> 0]

\* ------------------------------------------------------------------------
\* Store access helpers
\* ------------------------------------------------------------------------
\* the outcome of one store call: TRUE = it returns, FALSE = it reports an
\* error (supabase-js returns { data: null, error })
StoreOutcomes == IF faults < cfg.maxFaults THEN {TRUE, FALSE} ELSE {TRUE}

\* one store call with outcome ok
Charge(ok) == faults' = IF ok THEN faults ELSE faults + 1

\* two store calls in a row, the second decides whether the first matters
Charge2(ok, readOk) ==
    /\ ~ok => readOk
    /\ faults' = IF ok /\ readOk THEN faults ELSE faults + 1

\* the oldest job of a set, 0 for the empty set (.order('created_at').limit(1))
Oldest(S) == IF S = {} THEN 0 ELSE CHOOSE j \in S : \A k \in S : j <= k

\* .eq('batch_id', batchId).in('status', statuses)
JobsWithStatus(batchId, statuses) ==
    {j \in Jobs : jobs[j].batch_id = batchId /\ jobs[j].status \in statuses}

\* the row written by updateJobStatus(jobId, status, additionalData): the
\* status, started_at when the row read back has none, completed_at for a
\* terminal status; readOk is the outcome of the select of started_at
UpdatedJob(row, status, error, readOk) ==
    [row EXCEPT
       !.status = status,
       !.error = IF error = NULL THEN @ ELSE error,
       !.started_at = IF status # "pending" /\ readOk THEN TRUE ELSE @,
       !.completed_at = IF status \in Terminal THEN TRUE ELSE @]

\* a StepResult
Result(status, jobId, step, nextStep, error, batchComplete) ==
    [status |-> status, jobId |-> jobId, step |-> step, nextStep |-> nextStep,
     error |-> error, batchComplete |-> batchComplete]

\* variant of DispatcherCatch that reports the failure as 'no_work'; C6
\* must tell it from the catch block of the source
DispatcherCatchNoWork(message) ==
    Result("no_work", 0, NULL, NULL, message, FALSE)

\* the catch block of processOneStep: the error becomes a StepResult
DispatcherCatch(message) ==
    Result("processing", 0, NULL, NULL, message, FALSE)

\* the invocation returns r: its locals are gone
Return(i, r) ==
    inv' = [inv EXCEPT ![i] =
              [Idle EXCEPT !.pc = "done", !.batchId = inv[i].batchId,
                           !.useNeuronwriter = inv[i].useNeuronwriter,
                           !.job = inv[i].job, !.jobStatus = inv[i].jobStatus,
                           !.gens = inv[i].gens, !.result = Some(r)]]

Goto(i, pc) == inv' = [inv EXCEPT ![i].pc = pc]

\* throw inside a stage handler's try block
Throw(i, catchPc, message) ==
    inv' = [inv EXCEPT ![i].pc = catchPc, ![i].err = message]

At(i, pc) == inv[i].pc = pc

Running(i) == inv[i].pc \notin {"idle", "done"}

\* invocation i takes a step.  Calls that do not overlap need no
\* scheduling.  Overlapping calls: a step of i while another call is in
\* the middle of its work overtakes that call
Schedule(i) ==
    IF ~cfg.overlap THEN UNCHANGED sched
    ELSE LET overtakes == sched.turn \notin {0, i} /\ Running(sched.turn)
             quiet == \A k \in Invocations : ~(inv'[k].pc \notin {"idle", "done"})
         IN /\ overtakes => sched.switches < cfg.maxSwitches
            /\ sched' = [turn |-> IF quiet THEN 0 ELSE i,
                         switches |-> sched.switches + IF overtakes THEN 1 ELSE 0]

\* ------------------------------------------------------------------------
\* processOneStep: the dispatcher
\* ------------------------------------------------------------------------
\* the batch the caller polls
DispatchedBatches == {1}

\* what the fetchers return in this run: any of their values, or the first
\* draft (below the threshold), a non-empty text, and NeuronWriter in use
UseNeuronwriterOf == IF cfg.anyFetch THEN BOOLEAN ELSE {TRUE}
ResearchTextsOf == IF cfg.anyFetch THEN ResearchTexts ELSE {"raw"}
AnalysisTextsOf == IF cfg.anyFetch THEN AnalysisTexts ELSE {"brief"}
DraftsOf ==
    IF cfg.compare THEN Drafts
    ELSE IF cfg.anyFetch THEN {d \in Drafts : d.title # "early"}
    ELSE {d \in Drafts : d.title = "kinri"}
AnalysesOf ==
    IF cfg.compare THEN Analyses ELSE {a \in Analyses : a.queryId = "q1"}

\* a call of processOneStep(batchId, useNeuronwriter) begins, in the first
\* free slot; without overlap no other call is running or undelivered
Start(i) ==
    /\ At(i, "idle")
    /\ \A k \in Invocations : k < i => ~At(k, "idle")
    /\ cfg.overlap \/ \A k \in Invocations : At(k, "idle")
    /\ \E b \in DispatchedBatches, nw \in UseNeuronwriterOf :
         inv' = [inv EXCEPT ![i] =
                   [Idle EXCEPT !.pc = "setRunning", !.batchId = b,
                                !.useNeuronwriter = nw]]
    /\ UNCHANGED << batches, jobs, blogs, faults, cfg, call >>
    /\ Schedule(i)

\* the caller has the StepResult (const stepResult = await processOneStep(...))
Deliver(i) ==
    /\ At(i, "done")
    /\ inv' = [inv EXCEPT ![i] = Idle]
    /\ UNCHANGED << batches, jobs, blogs, faults, cfg, call >>
    /\ Schedule(i)

\* await updateBatchStatus(batchId, 'running')
SetRunning(i) ==
    /\ At(i, "setRunning")
    /\ \E ok \in StoreOutcomes :
         /\ Charge(ok)
         /\ IF ok
            THEN /\ batches' = [batches EXCEPT ![inv[i].batchId].status = "running"]
                 /\ Goto(i, "selectInProgress")
            ELSE /\ Return(i, DispatcherCatch("Failed to update batch status"))
                 /\ UNCHANGED batches
    /\ UNCHANGED << jobs, blogs, cfg, call >>
    /\ Schedule(i)

\* switch (job.status) on the row that was selected
StageEntry(status) ==
    CASE status \in {"pending", "researching"} -> "r_mark"
      [] status = "analyzing" -> "a_read"
      [] status = "writing" -> "w_read"

Select(i, j) ==
    inv' = [inv EXCEPT ![i].job = j, ![i].jobStatus = jobs[j].status,
                       ![i].pc = StageEntry(jobs[j].status)]

\* getNextJobToProcess, first query: the oldest job in progress; the
\* query's error is not looked at, so a failed query selects nothing
SelectInProgress(i) ==
    /\ At(i, "selectInProgress")
    /\ \E ok \in StoreOutcomes :
         /\ Charge(ok)
         /\ LET j == IF ok
                     THEN Oldest(JobsWithStatus(inv[i].batchId, InProgress))
                     ELSE 0
            IN IF j # 0 THEN Select(i, j) ELSE Goto(i, "selectPending")
    /\ UNCHANGED << batches, jobs, blogs, cfg, call >>
    /\ Schedule(i)

\* getNextJobToProcess, second query: the oldest pending job
SelectPending(i) ==
    /\ At(i, "selectPending")
    /\ \E ok \in StoreOutcomes :
         /\ Charge(ok)
         /\ LET j == IF ok
                     THEN Oldest(JobsWithStatus(inv[i].batchId, {"pending"}))
                     ELSE 0
            IN IF j # 0 THEN Select(i, j) ELSE Goto(i, "countJobs")
    /\ UNCHANGED << batches, jobs, blogs, cfg, call >>
    /\ Schedule(i)

\* variant of AllTerminal that waits for every job to be completed; C7
\* must tell it from the test of the source
AllCompleted(completed, failed, total) == completed = total

\* completed + failed === total
AllTerminal(completed, failed, total) == completed + failed = total

\* failed === total ? 'failed' : 'completed'
FinalStatus(failed, total) == IF failed = total THEN "failed" ELSE "completed"

\* if (!job): getJobsForBatch and the count of terminal jobs
CountJobs(i) ==
    /\ At(i, "countJobs")
    /\ \E ok \in StoreOutcomes :
         /\ Charge(ok)
         /\ LET mine == {j \in Jobs : jobs[j].batch_id = inv[i].batchId}
                completed ==
                    Cardinality({j \in mine : jobs[j].status = "completed"})
                failed == Cardinality({j \in mine : jobs[j].status = "failed"})
                total == Cardinality(mine)
            IN IF ~ok THEN Return(i, DispatcherCatch("Failed to get jobs"))
               ELSE IF AllTerminal(completed, failed, total)
               THEN inv' = [inv EXCEPT ![i].pc = "finalize",
                                       ![i].finalStatus = FinalStatus(failed, total)]
               ELSE Return(i, Result("no_work", 0, NULL, NULL, NULL, FALSE))
    /\ UNCHANGED << batches, jobs, blogs, cfg, call >>
    /\ Schedule(i)

\* await updateBatchStatus(batchId, failed === total ? 'failed' : 'completed')
Finalize(i) ==
    /\ At(i, "finalize")
    /\ \E ok \in StoreOutcomes :
         /\ Charge(ok)
         /\ IF ok
            THEN /\ batches' = [batches EXCEPT
                                  ![inv[i].batchId].status = inv[i].finalStatus]
                 /\ Return(i, Result("completed", 0, NULL, NULL, NULL, TRUE))
            ELSE /\ Return(i, DispatcherCatch("Failed to update batch status"))
                 /\ UNCHANGED batches
    /\ UNCHANGED << jobs, blogs, cfg, call >>
    /\ Schedule(i)

\* ------------------------------------------------------------------------
\* Stage handlers
\* ------------------------------------------------------------------------
\* variant of SetJobStatus whose update lacks .eq('id', jobId) and hits
\* every job of the batch; C5 must tell it from the update of the source
SetJobStatusOfBatch(j, status, error, readOk) ==
    jobs' = [k \in Jobs |->
               IF jobs[k].batch_id = jobs[j].batch_id
               THEN UpdatedJob(jobs[k], status, error, readOk)
               ELSE jobs[k]]

\* updateJobStatus(jobId, status): the select of started_at, then the update
\* that can throw
SetJobStatus(j, status, error, readOk) ==
    jobs' = [jobs EXCEPT ![j] = UpdatedJob(@, status, error, readOk)]

\* the catch block of a stage handler, first statement:
\* await setJobError(job.id, message); it throws to the dispatcher
SetJobError(i, next, r) ==
    \E ok \in StoreOutcomes, readOk \in StoreOutcomes :
      /\ Charge2(ok, readOk)
      /\ IF ok
         THEN /\ SetJobStatus(inv[i].job, "failed", inv[i].err, readOk)
              /\ IF next = "done" THEN Return(i, r) ELSE Goto(i, next)
         ELSE /\ Return(i, DispatcherCatch("Failed to update job"))
              /\ UNCHANGED jobs

\* variant of ResearchMark that counts a job found in researching as a
\* failed attempt of the batch; C21 must tell it from the source
ResearchMarkCounting(i) ==
    /\ At(i, "r_mark")
    /\ \E ok \in StoreOutcomes, readOk \in StoreOutcomes :
         /\ Charge2(ok, readOk)
         /\ IF ok
            THEN /\ SetJobStatus(inv[i].job, "researching", NULL, readOk)
                 /\ Goto(i, "r_fetch")
                 /\ batches' = IF inv[i].jobStatus = "researching"
                               THEN [batches EXCEPT
                                       ![inv[i].batchId].failed_keywords = @ + 1]
                               ELSE batches
            ELSE /\ Return(i, DispatcherCatch("Failed to update job"))
                 /\ UNCHANGED << jobs, batches >>
    /\ UNCHANGED << blogs, cfg, call >>
    /\ Schedule(i)

\* doResearchStep: await updateJobStatus(job.id, 'researching'), outside try
ResearchMark(i) ==
    /\ At(i, "r_mark")
    /\ \E ok \in StoreOutcomes, readOk \in StoreOutcomes :
         /\ Charge2(ok, readOk)
         /\ IF ok
            THEN /\ SetJobStatus(inv[i].job, "researching", NULL, readOk)
                 /\ Goto(i, "r_fetch")
            ELSE /\ Return(i, DispatcherCatch("Failed to update job"))
                 /\ UNCHANGED jobs
    /\ UNCHANGED << batches, blogs, cfg, call >>
    /\ Schedule(i)

\* const rawResearch = await research(job.keyword)
ResearchFetch(i) ==
    /\ At(i, "r_fetch")
    /\ \/ \E text \in ResearchTextsOf :
            inv' = [inv EXCEPT ![i].pc = "r_save", ![i].raw = text]
       \/ Throw(i, "r_catch", "OpenRouter API error")
    /\ UNCHANGED << batches, jobs, blogs, faults, cfg, call >>
    /\ Schedule(i)

\* update({ research_raw, status: 'analyzing' }) and the return
ResearchSave(i) ==
    /\ At(i, "r_save")
    /\ \E ok \in StoreOutcomes :
         /\ Charge(ok)
         /\ IF ok
            THEN /\ jobs' = [jobs EXCEPT ![inv[i].job].research_raw = inv[i].raw,
                                         ![inv[i].job].status = "analyzing"]
                 /\ Return(i, Result("processing", inv[i].job, "research",
                                     "analyze", NULL, FALSE))
            ELSE /\ Throw(i, "r_catch", "Failed to save research")
                 /\ UNCHANGED jobs
    /\ UNCHANGED << batches, blogs, cfg, call >>
    /\ Schedule(i)

\* variant of ResearchCatch that counts the failure in failed_keywords, as
\* the catch of doWriteStep does; C23 must tell it from the source
ResearchCatchCounting(i) ==
    /\ At(i, "r_catch")
    /\ SetJobError(i, "done",
                   Result("processing", inv[i].job, "research", NULL,
                          inv[i].err, FALSE))
    /\ batches' = [batches EXCEPT ![inv[i].batchId].failed_keywords = @ + 1]
    /\ UNCHANGED << blogs, cfg, call >>
    /\ Schedule(i)

\* catch of doResearchStep
ResearchCatch(i) ==
    /\ At(i, "r_catch")
    /\ SetJobError(i, "done",
                   Result("processing", inv[i].job, "research", NULL,
                          inv[i].err, FALSE))
    /\ UNCHANGED << batches, blogs, cfg, call >>
    /\ Schedule(i)

\* doAnalyzeStep: select('research_raw'); the query's error is not looked
\* at, a missing or empty text throws
AnalyzeRead(i) ==
    /\ At(i, "a_read")
    /\ \E ok \in StoreOutcomes :
         /\ Charge(ok)
         /\ LET raw == IF ok THEN jobs[inv[i].job].research_raw ELSE NULL
            IN IF Falsy(raw) THEN Throw(i, "a_catch", "No research data found")
               ELSE inv' = [inv EXCEPT ![i].pc = "a_analyze", ![i].raw = raw]
    /\ UNCHANGED << batches, jobs, blogs, cfg, call >>
    /\ Schedule(i)

\* variant of AnalyzeFetch whose timeout is soft: after 45 s the stage goes
\* on without a brief; C27 must tell it from the source
AnalyzeFetchSoft(i) ==
    /\ At(i, "a_analyze")
    /\ \/ \E text \in AnalysisTextsOf :
            inv' = [inv EXCEPT ![i].analyzed = text,
                               ![i].pc = IF inv[i].useNeuronwriter
                                         THEN "a_nw" ELSE "a_save"]
       \/ Throw(i, "a_catch", "OpenRouter API error")
       \/ Goto(i, IF inv[i].useNeuronwriter THEN "a_nw" ELSE "a_save")
    /\ UNCHANGED << batches, jobs, blogs, faults, cfg, call >>
    /\ Schedule(i)

\* Promise.race([analyzeResearch(...), 45 s timeout])
AnalyzeFetch(i) ==
    /\ At(i, "a_analyze")
    /\ \/ \E text \in AnalysisTextsOf :
            inv' = [inv EXCEPT ![i].analyzed = text,
                               ![i].pc = IF inv[i].useNeuronwriter
                                         THEN "a_nw" ELSE "a_save"]
       \/ Throw(i, "a_catch", "OpenRouter API error")
       \/ Throw(i, "a_catch", "Analysis timeout (45s)")
    /\ UNCHANGED << batches, jobs, blogs, faults, cfg, call >>
    /\ Schedule(i)

\* variant of AnalyzeNeuronwriter without the inner try: a failure or the
\* timeout of the SEO analysis fails the stage; C26 must tell it from the
\* source
AnalyzeNeuronwriterStrict(i) ==
    /\ At(i, "a_nw")
    /\ \/ \E a \in AnalysesOf :
            inv' = [inv EXCEPT ![i].pc = "a_saveNw", ![i].nw = Some(a)]
       \/ Throw(i, "a_catch", "NeuronWriter timeout (10s)")
    /\ UNCHANGED << batches, jobs, blogs, faults, cfg, call >>
    /\ Schedule(i)

\* Promise.race([analyzeKeyword(...), 10 s timeout]) inside the inner try;
\* a failure or the timeout is swallowed
AnalyzeNeuronwriter(i) ==
    /\ At(i, "a_nw")
    /\ \/ \E a \in AnalysesOf :
            inv' = [inv EXCEPT ![i].pc = "a_saveNw", ![i].nw = Some(a)]
       \/ Goto(i, "a_save")
    /\ UNCHANGED << batches, jobs, blogs, faults, cfg, call >>
    /\ Schedule(i)

\* await saveNeuronwriterData(job.id, neuronwriterData), inside the inner try
AnalyzeSaveNeuronwriter(i) ==
    /\ At(i, "a_saveNw")
    /\ \E ok \in StoreOutcomes :
         /\ Charge(ok)
         /\ IF ok
            THEN jobs' = [jobs EXCEPT ![inv[i].job].neuronwriter_data = inv[i].nw]
            ELSE UNCHANGED jobs
    /\ Goto(i, "a_save")
    /\ UNCHANGED << batches, blogs, cfg, call >>
    /\ Schedule(i)

\* update({ research_analyzed, status: 'writing' }) and the return
AnalyzeSave(i) ==
    /\ At(i, "a_save")
    /\ \E ok \in StoreOutcomes :
         /\ Charge(ok)
         /\ IF ok
            THEN /\ jobs' = [jobs EXCEPT
                               ![inv[i].job].research_analyzed = inv[i].analyzed,
                               ![inv[i].job].status = "writing"]
                 /\ Return(i, Result("processing", inv[i].job, "analyze",
                                     "write", NULL, FALSE))
            ELSE /\ Throw(i, "a_catch", "Failed to save analysis")
                 /\ UNCHANGED jobs
    /\ UNCHANGED << batches, blogs, cfg, call >>
    /\ Schedule(i)

\* catch of doAnalyzeStep
AnalyzeCatch(i) ==
    /\ At(i, "a_catch")
    /\ SetJobError(i, "done",
                   Result("processing", inv[i].job, "analyze", NULL,
                          inv[i].err, FALSE))
    /\ UNCHANGED << batches, blogs, cfg, call >>
    /\ Schedule(i)

\* if (links.length > 0) content = insertLinks(content, links)
InsertIfAny(content, links) ==
    IF Len(links) > 0 THEN insertLinks(content, links) ELSE content

\* doWriteStep: let content = blogResult.content; suggestLinks; insertLinks
WithLinks(content) == InsertIfAny(content, suggestLinks(content))

\* variant of NeedsRetry that retries a score of exactly the threshold; C8
\* must tell it from the comparison of the source
NeedsRetryInclusive(score) == score <= MIN_ACCEPTABLE_SCORE

\* if (score < MIN_ACCEPTABLE_SCORE)
NeedsRetry(score) == score < MIN_ACCEPTABLE_SCORE

\* calculateScore(content, neuronwriterData).percentage
ScoreOf(content, nw) == calculateScore(content, nw).percentage

\* select('research_analyzed, neuronwriter_data'); the query's error is not
\* looked at, a missing or empty analysis throws
WriteRead(i) ==
    /\ At(i, "w_read")
    /\ \E ok \in StoreOutcomes :
         /\ Charge(ok)
         /\ LET row == jobs[inv[i].job]
                analyzed == IF ok THEN row.research_analyzed ELSE NULL
            IN IF Falsy(analyzed)
               THEN Throw(i, "w_catch", "No analyzed research found")
               ELSE inv' = [inv EXCEPT ![i].pc = "w_generate",
                                       ![i].analyzed = analyzed,
                                       ![i].nw = row.neuronwriter_data]
    /\ UNCHANGED << batches, jobs, blogs, cfg, call >>
    /\ Schedule(i)

\* content and score of every draft the writing fetcher may return, with
\* every analysis the job may have: WithLinks and ScoreOf, tabulated
LinkedDraft == [d \in Drafts |-> WithLinks(d.content)]
DraftScore == [d \in Drafts |-> [a \in Analyses |-> ScoreOf(LinkedDraft[d], a)]]

\* let score: number | null = null; if (neuronwriterData) score = ...
ScoreOrNull(draft, nw) ==
    IF nw = None THEN None ELSE Some(DraftScore[draft][Val(nw)])

\* variant of Scored that keeps the better score of the two drafts with the
\* text of the second; C29 must tell it from the source
ScoredKeepingBest(i, draft, n, mayRetry, score) ==
    inv' = [inv EXCEPT
              ![i].blogResult = Some(draft),
              ![i].content = LinkedDraft[draft],
              ![i].score = IF n > 1 /\ @ # None /\ score # None
                              /\ Val(@) > Val(score)
                           THEN @ ELSE score,
              ![i].gens = n,
              ![i].pc = IF mayRetry /\ score # None /\ NeedsRetry(Val(score))
                        THEN "w_regenerate" ELSE "w_save"]

\* generation n is in hand with its links and its score: the first one is
\* followed by a retry when there is a score and it is below the threshold
Scored(i, draft, n, mayRetry, score) ==
    inv' = [inv EXCEPT
              ![i].blogResult = Some(draft),
              ![i].content = LinkedDraft[draft],
              ![i].score = score,
              ![i].gens = n,
              ![i].pc = IF mayRetry /\ score # None /\ NeedsRetry(Val(score))
                        THEN "w_regenerate" ELSE "w_save"]

\* writeBlog returned draft as generation n
Drafted(i, draft, n, mayRetry) ==
    Scored(i, draft, n, mayRetry, ScoreOrNull(draft, inv[i].nw))

\* let blogResult = await writeBlog(...), links and score
WriteGenerate(i) ==
    /\ At(i, "w_generate")
    /\ \/ \E draft \in DraftsOf : Drafted(i, draft, 1, TRUE)
       \/ Throw(i, "w_catch", "OpenRouter API error")
    /\ UNCHANGED << batches, jobs, blogs, faults, cfg, call >>
    /\ Schedule(i)

\* blogResult = await writeBlog(..., { attempt: 2 }), links and score
WriteRegenerate(i) ==
    /\ At(i, "w_regenerate")
    /\ \/ \E draft \in DraftsOf : Drafted(i, draft, inv[i].gens + 1, FALSE)
       \/ Throw(i, "w_catch", "OpenRouter API error")
    /\ UNCHANGED << batches, jobs, blogs, faults, cfg, call >>
    /\ Schedule(i)

\* the row saveBlog inserts
BlogRow(jobId, title, content, metaDescription, neuronwriterScore) ==
    [job_id |-> jobId, title |-> title, content |-> content,
     meta_description |-> metaDescription,
     word_count |-> WordCount(content),
     internal_links |-> ExtractInternalLinks(content),
     neuronwriter_score |-> neuronwriterScore]

\* job_id UUID NOT NULL UNIQUE
UniqueViolation(jobId) == \E k \in 1..Len(blogs) : blogs[k].job_id = jobId

\* const savedBlog = await saveBlog(...)
WriteSave(i) ==
    /\ At(i, "w_save")
    /\ \E ok \in StoreOutcomes :
         /\ Charge(ok)
         /\ IF ok /\ ~UniqueViolation(inv[i].job)
            THEN /\ blogs' = Append(blogs,
                                    BlogRow(inv[i].job,
                                            Val(inv[i].blogResult).title,
                                            inv[i].content,
                                            Val(inv[i].blogResult).metaDescription,
                                            inv[i].score))
                 /\ Goto(i, "w_complete")
            ELSE /\ Throw(i, "w_catch", "Failed to save blog")
                 /\ UNCHANGED blogs
    /\ UNCHANGED << batches, jobs, cfg, call >>
    /\ Schedule(i)

\* await updateJobStatus(job.id, 'completed')
WriteComplete(i) ==
    /\ At(i, "w_complete")
    /\ \E ok \in StoreOutcomes, readOk \in StoreOutcomes :
         /\ Charge2(ok, readOk)
         /\ IF ok
            THEN /\ SetJobStatus(inv[i].job, "completed", NULL, readOk)
                 /\ Goto(i, "w_incRead")
            ELSE /\ Throw(i, "w_catch", "Failed to update job")
                 /\ UNCHANGED jobs
    /\ UNCHANGED << batches, blogs, cfg, call >>
    /\ Schedule(i)

\* incrementBatchProgress, first half: select(field); an error goes to onError
IncrementRead(i, field, next, onError) ==
    \E ok \in StoreOutcomes :
      /\ Charge(ok)
      /\ IF ok
         THEN inv' = [inv EXCEPT ![i].pc = next,
                                 ![i].cur = batches[inv[i].batchId][field]]
         ELSE onError

\* variant of IncrementWrite that stores the value read as it is (without
\* the + 1); C33 must tell it from the update of the source
IncrementWriteSame(i, field, r, onError) ==
    \E ok \in StoreOutcomes :
      /\ Charge(ok)
      /\ IF ok
         THEN /\ batches' = [batches EXCEPT
                               ![inv[i].batchId][field] = inv[i].cur]
              /\ Return(i, r)
         ELSE /\ onError
              /\ UNCHANGED batches

\* an atomic increment: the update adds one to the value stored by then
IncrementWriteAtomic(i, field, r, onError) ==
    \E ok \in StoreOutcomes :
      /\ Charge(ok)
      /\ IF ok
         THEN /\ batches' = [batches EXCEPT
                               ![inv[i].batchId][field] =
                                  batches[inv[i].batchId][field] + 1]
              /\ Return(i, r)
         ELSE /\ onError
              /\ UNCHANGED batches

\* incrementBatchProgress, second half: update({ [field]: currentValue + 1 })
IncrementWrite(i, field, r, onError) ==
    \E ok \in StoreOutcomes :
      /\ Charge(ok)
      /\ IF ok
         THEN /\ batches' = [batches EXCEPT
                               ![inv[i].batchId][field] = inv[i].cur + 1]
              /\ Return(i, r)
         ELSE /\ onError
              /\ UNCHANGED batches

\* await incrementBatchProgress(batchId, 'completed_keywords'), the read
WriteIncrementRead(i) ==
    /\ At(i, "w_incRead")
    /\ IncrementRead(i, "completed_keywords", "w_incWrite",
                     Throw(i, "w_catch", "Failed to fetch batch"))
    /\ UNCHANGED << batches, jobs, blogs, cfg, call >>
    /\ Schedule(i)

\* the write of the counter, and the return of the Write stage
WriteIncrementWrite(i) ==
    /\ At(i, "w_incWrite")
    /\ IncrementWrite(i, "completed_keywords",
                      Result("processing", inv[i].job, "write", "completed",
                             NULL, FALSE),
                      Throw(i, "w_catch", "Failed to increment completed_keywords"))
    /\ UNCHANGED << jobs, blogs, cfg, call >>
    /\ Schedule(i)

\* catch of doWriteStep: await setJobError(job.id, message)
WriteCatch(i) ==
    /\ At(i, "w_catch")
    /\ SetJobError(i, "w_failRead", DispatcherCatch(NULL))
    /\ UNCHANGED << batches, blogs, cfg, call >>
    /\ Schedule(i)

\* catch of doWriteStep: await incrementBatchProgress(batchId,
\* 'failed_keywords'), the read; it throws to the dispatcher
WriteFailedRead(i) ==
    /\ At(i, "w_failRead")
    /\ IncrementRead(i, "failed_keywords", "w_failWrite",
                     Return(i, DispatcherCatch("Failed to fetch batch")))
    /\ UNCHANGED << batches, jobs, blogs, cfg, call >>
    /\ Schedule(i)

\* the write of the counter, and the return of the catch block
WriteFailedWrite(i) ==
    /\ At(i, "w_failWrite")
    /\ IncrementWrite(i, "failed_keywords",
                      Result("processing", inv[i].job, "write", NULL,
                             inv[i].err, FALSE),
                      Return(i, DispatcherCatch("Failed to increment failed_keywords")))
    /\ UNCHANGED << jobs, blogs, cfg, call >>
    /\ Schedule(i)

\* ------------------------------------------------------------------------
\* The Edge Function: Deno.serve handler and its stage handlers.  It checks
\* the error of two updates only; every other store call goes on after a
\* failure.  Start, Deliver, the two selections, ResearchFetch,
\* ResearchSave, AnalyzeRead, AnalyzeSaveNeuronwriter, AnalyzeSave and
\* WriteRead are the same statements as in the library
\* ------------------------------------------------------------------------
\* await supabase.from('simple_batches').update({ status: 'running' })
EdgeSetRunning(i) ==
    /\ At(i, "setRunning")
    /\ \E ok \in StoreOutcomes :
         /\ Charge(ok)
         /\ batches' = IF ok
                       THEN [batches EXCEPT ![inv[i].batchId].status = "running"]
                       ELSE batches
    /\ Goto(i, "selectInProgress")
    /\ UNCHANGED << jobs, blogs, cfg, call >>
    /\ Schedule(i)

\* if (!job): the select of the statuses; a failed select leaves allJobs
\* null, so completed, failed and total are all 0
EdgeCountJobs(i) ==
    /\ At(i, "countJobs")
    /\ \E ok \in StoreOutcomes :
         /\ Charge(ok)
         /\ LET mine == IF ok
                        THEN {j \in Jobs : jobs[j].batch_id = inv[i].batchId}
                        ELSE {}
                completed ==
                    Cardinality({j \in mine : jobs[j].status = "completed"})
                failed == Cardinality({j \in mine : jobs[j].status = "failed"})
                total == Cardinality(mine)
            IN IF AllTerminal(completed, failed, total)
               THEN inv' = [inv EXCEPT ![i].pc = "finalize",
                                       ![i].finalStatus = FinalStatus(failed, total)]
               ELSE Return(i, Result("no_work", 0, NULL, NULL, NULL, FALSE))
    /\ UNCHANGED << batches, jobs, blogs, cfg, call >>
    /\ Schedule(i)

\* update({ status: failed === total ? 'failed' : 'completed' }) and the
\* response with batchComplete: true
EdgeFinalize(i) ==
    /\ At(i, "finalize")
    /\ \E ok \in StoreOutcomes :
         /\ Charge(ok)
         /\ batches' = IF ok
                       THEN [batches EXCEPT
                               ![inv[i].batchId].status = inv[i].finalStatus]
                       ELSE batches
    /\ Return(i, Result("completed", 0, NULL, NULL, NULL, TRUE))
    /\ UNCHANGED << jobs, blogs, cfg, call >>
    /\ Schedule(i)

\* update(fields).eq('id', job.id) whose error is not looked at
EdgeUpdateJob(j, status, error, completedAt) ==
    \E ok \in StoreOutcomes :
      /\ Charge(ok)
      /\ jobs' = IF ok
                 THEN [jobs EXCEPT ![j].status = status,
                                   ![j].error = IF error = NULL THEN @ ELSE error,
                                   ![j].completed_at = completedAt \/ @]
                 ELSE jobs

\* doResearchStep: update({ status: 'researching' }), outside try
EdgeResearchMark(i) ==
    /\ At(i, "r_mark")
    /\ EdgeUpdateJob(inv[i].job, "researching", NULL, FALSE)
    /\ Goto(i, "r_fetch")
    /\ UNCHANGED << batches, blogs, cfg, call >>
    /\ Schedule(i)

\* catch of doResearchStep: update({ status: 'failed', error }) and the
\* StepResult
EdgeResearchCatch(i) ==
    /\ At(i, "r_catch")
    /\ EdgeUpdateJob(inv[i].job, "failed", inv[i].err, FALSE)
    /\ Return(i, Result("processing", inv[i].job, "research", NULL,
                        inv[i].err, FALSE))
    /\ UNCHANGED << batches, blogs, cfg, call >>
    /\ Schedule(i)

\* await Promise.all([analysisPromise, neuronwriterPromise]); a failure of
\* analyzeKeywordNeuronWriter is caught and gives null
EdgeAnalyzeFetch(i) ==
    /\ At(i, "a_analyze")
    /\ \/ \E text \in AnalysisTextsOf :
            \/ /\ inv[i].useNeuronwriter
               /\ \E a \in AnalysesOf :
                    inv' = [inv EXCEPT ![i].analyzed = text, ![i].nw = Some(a),
                                       ![i].pc = "a_saveNw"]
            \/ inv' = [inv EXCEPT ![i].analyzed = text, ![i].pc = "a_save"]
       \/ Throw(i, "a_catch", "OpenRouter API error")
    /\ UNCHANGED << batches, jobs, blogs, faults, cfg, call >>
    /\ Schedule(i)

\* catch of doAnalyzeStep
EdgeAnalyzeCatch(i) ==
    /\ At(i, "a_catch")
    /\ EdgeUpdateJob(inv[i].job, "failed", inv[i].err, FALSE)
    /\ Return(i, Result("processing", inv[i].job, "analyze", NULL,
                        inv[i].err, FALSE))
    /\ UNCHANGED << batches, blogs, cfg, call >>
    /\ Schedule(i)

\* doWriteStep: let content = blogResult.content; suggestLinks; insertLinks
EdgeWithLinks(content) == InsertIfAny(content, EdgeSuggestLinks(content))

\* content, score and post-processed content of every draft the writing
\* fetcher may return, tabulated
EdgeLinkedDraft == [d \in Drafts |-> EdgeWithLinks(d.content)]
EdgeDraftScore ==
    [d \in Drafts |-> [a \in Analyses |-> ScoreOf(EdgeLinkedDraft[d], a)]]
EdgeProcessedDraft == [d \in Drafts |-> postProcessContent(EdgeLinkedDraft[d])]
EdgeBrandValidation ==
    [d \in Drafts |-> validateBrandKeywords(EdgeProcessedDraft[d])]

\* neuronwriterData?.queryId
HasQueryId(nw) == nw # None /\ Val(nw).queryId # NULL

\* variant of EdgeScored that asks for another draft when the brand
\* validation of the first one fails; C32 must tell it from the source,
\* which only logs the validation
EdgeScoredValidating(i, draft, n, mayRetry, score) ==
    inv' = [inv EXCEPT
              ![i].blogResult = Some(draft),
              ![i].content = EdgeProcessedDraft[draft],
              ![i].brandValidation = Some(EdgeBrandValidation[draft]),
              ![i].score = score,
              ![i].gens = n,
              ![i].pc = IF mayRetry
                           /\ \/ score # None /\ NeedsRetry(Val(score))
                              \/ ~ EdgeBrandValidation[draft].isValid
                        THEN "w_regenerate"
                        ELSE IF HasQueryId(inv[i].nw) THEN "w_import"
                        ELSE "w_save"]

\* generation n is in hand with its links and its score: a retry, or the
\* post-processing with the brand validation and then the import or the
\* insert
EdgeScored(i, draft, n, mayRetry, score) ==
    inv' = [inv EXCEPT
              ![i].blogResult = Some(draft),
              ![i].content = EdgeProcessedDraft[draft],
              ![i].brandValidation = Some(EdgeBrandValidation[draft]),
              ![i].score = score,
              ![i].gens = n,
              ![i].pc = IF mayRetry /\ score # None /\ NeedsRetry(Val(score))
                        THEN "w_regenerate"
                        ELSE IF HasQueryId(inv[i].nw) THEN "w_import"
                        ELSE "w_save"]

\* writeBlog returned draft as generation n
EdgeDrafted(i, draft, n, mayRetry) ==
    EdgeScored(i, draft, n, mayRetry,
               IF inv[i].nw = None THEN None
               ELSE Some(EdgeDraftScore[draft][Val(inv[i].nw)]))

\* let blogResult = await writeBlog(...), links and score
EdgeWriteGenerate(i) ==
    /\ At(i, "w_generate")
    /\ \/ \E draft \in DraftsOf : EdgeDrafted(i, draft, 1, TRUE)
       \/ Throw(i, "w_catch", "OpenRouter API error")
    /\ UNCHANGED << batches, jobs, blogs, faults, cfg, call >>
    /\ Schedule(i)

\* blogResult = await writeBlog(..., { attempt: 2 }), links and score
EdgeWriteRegenerate(i) ==
    /\ At(i, "w_regenerate")
    /\ \/ \E draft \in DraftsOf : EdgeDrafted(i, draft, inv[i].gens + 1, FALSE)
       \/ Throw(i, "w_catch", "OpenRouter API error")
    /\ UNCHANGED << batches, jobs, blogs, faults, cfg, call >>
    /\ Schedule(i)

\* what the import-content request may come back with: a failure (no key,
\* a status that is not ok, an exception), and a response without a
\* content_score or with an official score, which may be 0
ImportResponses ==
    { [ok |-> FALSE, content_score |-> None],
      [ok |-> TRUE, content_score |-> None],
      [ok |-> TRUE, content_score |-> Some(0)],
      [ok |-> TRUE, content_score |-> Some(72)] }

\* what importToNeuronWriter resolves to:
\* contentScore: result.content_score || null
ImportResult(response) ==
    [success |-> response.ok,
     contentScore |-> IF response.ok /\ response.content_score # None
                         /\ Val(response.content_score) # 0
                      THEN response.content_score ELSE None]

ImportResults == {ImportResult(response) : response \in ImportResponses}

\* const importResult = await importToNeuronWriter(...);
\* finalScore = neuronwriterRealScore ?? score
EdgeImport(i) ==
    /\ At(i, "w_import")
    /\ \E response \in ImportResponses :
         LET importResult == ImportResult(response)
         IN inv' = [inv EXCEPT
                      ![i].pc = "w_save",
                      ![i].content_score = IF response.ok
                                           THEN response.content_score
                                           ELSE None,
                      ![i].score = IF importResult.success
                                      /\ importResult.contentScore # None
                                   THEN importResult.contentScore ELSE @]
    /\ UNCHANGED << batches, jobs, blogs, faults, cfg, call >>
    /\ Schedule(i)

\* await supabase.from('simple_blogs').insert({...}): the result is not
\* looked at
EdgeWriteSave(i) ==
    /\ At(i, "w_save")
    /\ \E ok \in StoreOutcomes :
         /\ Charge(ok)
         /\ blogs' = IF ok /\ ~UniqueViolation(inv[i].job)
                     THEN Append(blogs,
                                 BlogRow(inv[i].job,
                                         Val(inv[i].blogResult).title,
                                         inv[i].content,
                                         Val(inv[i].blogResult).metaDescription,
                                         inv[i].score))
                     ELSE blogs
    /\ Goto(i, "w_complete")
    /\ UNCHANGED << batches, jobs, cfg, call >>
    /\ Schedule(i)

\* update({ status: 'completed', completed_at })
EdgeWriteComplete(i) ==
    /\ At(i, "w_complete")
    /\ EdgeUpdateJob(inv[i].job, "completed", NULL, TRUE)
    /\ Goto(i, "w_incRead")
    /\ UNCHANGED << batches, blogs, cfg, call >>
    /\ Schedule(i)

\* select('completed_keywords'); if (batch) ...; without a row the stage
\* returns
EdgeWriteIncrementRead(i) ==
    /\ At(i, "w_incRead")
    /\ IncrementRead(i, "completed_keywords", "w_incWrite",
                     Return(i, Result("processing", inv[i].job, "write",
                                      "completed", NULL, FALSE)))
    /\ UNCHANGED << batches, jobs, blogs, cfg, call >>
    /\ Schedule(i)

\* update({ completed_keywords: (batch.completed_keywords || 0) + 1 }) and
\* the return of the Write stage
EdgeWriteIncrementWrite(i) ==
    /\ At(i, "w_incWrite")
    /\ IncrementWrite(i, "completed_keywords",
                      Result("processing", inv[i].job, "write", "completed",
                             NULL, FALSE),
                      Return(i, Result("processing", inv[i].job, "write",
                                       "completed", NULL, FALSE)))
    /\ UNCHANGED << jobs, blogs, cfg, call >>
    /\ Schedule(i)

\* catch of doWriteStep: update({ status: 'failed', error })
EdgeWriteCatch(i) ==
    /\ At(i, "w_catch")
    /\ EdgeUpdateJob(inv[i].job, "failed", inv[i].err, FALSE)
    /\ Goto(i, "w_failRead")
    /\ UNCHANGED << batches, blogs, cfg, call >>
    /\ Schedule(i)

\* catch of doWriteStep: select('failed_keywords'); if (batch) ...
EdgeWriteFailedRead(i) ==
    /\ At(i, "w_failRead")
    /\ IncrementRead(i, "failed_keywords", "w_failWrite",
                     Return(i, Result("processing", inv[i].job, "write", NULL,
                                      inv[i].err, FALSE)))
    /\ UNCHANGED << batches, jobs, blogs, cfg, call >>
    /\ Schedule(i)

\* update({ failed_keywords: (batch.failed_keywords || 0) + 1 }) and the
\* return of the catch block
EdgeWriteFailedWrite(i) ==
    /\ At(i, "w_failWrite")
    /\ IncrementWrite(i, "failed_keywords",
                      Result("processing", inv[i].job, "write", NULL,
                             inv[i].err, FALSE),
                      Return(i, Result("processing", inv[i].job, "write", NULL,
                                       inv[i].err, FALSE)))
    /\ UNCHANGED << jobs, blogs, cfg, call >>
    /\ Schedule(i)

\* the process running the invocation is killed (serverless timeout): the
\* call never returns and its locals are gone
Crash(i) ==
    /\ Running(i)
    /\ faults < cfg.maxFaults
    /\ faults' = faults + 1
    /\ inv' = [inv EXCEPT ![i] = Idle]
    /\ UNCHANGED << batches, jobs, blogs, cfg, call >>
    /\ Schedule(i)

\* ------------------------------------------------------------------------
\* Specifications
\* ------------------------------------------------------------------------
\* one step of invocation i of processOneStep between its call and its
\* return
Work(i) ==
    \/ SetRunning(i)
    \/ SelectInProgress(i)
    \/ SelectPending(i)
    \/ CountJobs(i)
    \/ Finalize(i)
    \/ ResearchMark(i)
    \/ ResearchFetch(i)
    \/ ResearchSave(i)
    \/ ResearchCatch(i)
    \/ AnalyzeRead(i)
    \/ AnalyzeFetch(i)
    \/ AnalyzeNeuronwriter(i)
    \/ AnalyzeSaveNeuronwriter(i)
    \/ AnalyzeSave(i)
    \/ AnalyzeCatch(i)
    \/ WriteRead(i)
    \/ WriteGenerate(i)
    \/ WriteRegenerate(i)
    \/ WriteSave(i)
    \/ WriteComplete(i)
    \/ WriteIncrementRead(i)
    \/ WriteIncrementWrite(i)
    \/ WriteCatch(i)
    \/ WriteFailedRead(i)
    \/ WriteFailedWrite(i)

\* one step of invocation i of processOneStep
Step(i) ==
    \/ Start(i)
    \/ Deliver(i)
    \/ Work(i)

\* non-overlapping calls, store calls may fail, a call may be killed
Init ==
    InitStore /\ cfg = [overlap |-> FALSE, maxFaults |-> MaxFaults, maxSwitches |-> 0,
                        anyFetch |-> TRUE, compare |-> FALSE]
    /\ call = NoCall

Next == \E i \in Invocations : Step(i) \/ Crash(i)

Spec == Init /\ [][Next]_vars

\* overlapping calls (two pollers, or a poll that outlives its caller);
\* every store call succeeds, the fetchers return one value or fail
InitConc ==
    InitStore /\ cfg = [overlap |-> TRUE, maxFaults |-> 0, maxSwitches |-> MaxSwitches,
                        anyFetch |-> FALSE, compare |-> FALSE]
    /\ call = NoCall

\* non-overlapping calls, every store call succeeds, no call is killed; a
\* step that can be taken is taken eventually
InitLive ==
    InitStore /\ cfg = [overlap |-> FALSE, maxFaults |-> 0, maxSwitches |-> 0,
                        anyFetch |-> TRUE, compare |-> FALSE]
    /\ call = NoCall

NextLive == \E i \in Invocations : Step(i)

SpecLive == InitLive /\ [][NextLive]_vars /\ WF_vars(NextLive)

SpecConc == InitConc /\ [][NextLive]_vars

\* one step of invocation i of the Edge Function
EdgeWork(i) ==
    \/ EdgeSetRunning(i)
    \/ SelectInProgress(i)
    \/ SelectPending(i)
    \/ EdgeCountJobs(i)
    \/ EdgeFinalize(i)
    \/ EdgeResearchMark(i)
    \/ ResearchFetch(i)
    \/ ResearchSave(i)
    \/ EdgeResearchCatch(i)
    \/ AnalyzeRead(i)
    \/ EdgeAnalyzeFetch(i)
    \/ AnalyzeSaveNeuronwriter(i)
    \/ AnalyzeSave(i)
    \/ EdgeAnalyzeCatch(i)
    \/ WriteRead(i)
    \/ EdgeWriteGenerate(i)
    \/ EdgeWriteRegenerate(i)
    \/ EdgeImport(i)
    \/ EdgeWriteSave(i)
    \/ EdgeWriteComplete(i)
    \/ EdgeWriteIncrementRead(i)
    \/ EdgeWriteIncrementWrite(i)
    \/ EdgeWriteCatch(i)
    \/ EdgeWriteFailedRead(i)
    \/ EdgeWriteFailedWrite(i)

\* one step of an invocation of the Edge Function
EdgeStep(i) ==
    \/ Start(i)
    \/ Deliver(i)
    \/ EdgeWork(i)

NextEdge == \E i \in Invocations : EdgeStep(i) \/ Crash(i)

\* the Edge Function under the conditions of Spec: non-overlapping calls,
\* store calls may fail, a call may be killed
SpecEdge == Init /\ [][NextEdge]_vars

\* ------------------------------------------------------------------------
\* processBatch: processOneStep called in a loop
\* ------------------------------------------------------------------------
\* stepResult = await processOneStep(batchId, useNeuronwriter), the call
BatchStart(i) ==
    /\ call.fn = "processBatch"
    /\ call.result.continueProcessing
    /\ At(i, "idle")
    /\ \A k \in Invocations : k < i => ~At(k, "idle")
    /\ \A k \in Invocations : At(k, "idle")
    /\ inv' = [inv EXCEPT ![i] =
                 [Idle EXCEPT !.pc = "setRunning",
                              !.batchId = call.input.batchId,
                              !.useNeuronwriter = call.input.useNeuronwriter]]
    /\ UNCHANGED << batches, jobs, blogs, faults, cfg, call >>
    /\ Schedule(i)

\* the entry processBatch pushes for a step result
ResultEntry(stepResult) ==
    [keyword |-> stepResult.jobId, success |-> stepResult.error = NULL,
     error |-> stepResult.error]

\* the rest of the loop body, with the step result in hand: the loop ends
\* on 'completed' and 'no_work', and a result with step 'write' and
\* nextStep 'completed' is pushed
BatchDeliver(i) ==
    /\ call.fn = "processBatch"
    /\ At(i, "done")
    /\ LET stepResult == Val(inv[i].result)
       IN call' = [call EXCEPT
                     !.result.continueProcessing =
                        stepResult.status \notin {"completed", "no_work"},
                     !.result.results =
                        IF stepResult.step = "write"
                           /\ stepResult.nextStep = "completed"
                        THEN Append(@, ResultEntry(stepResult))
                        ELSE @]
    /\ inv' = [inv EXCEPT ![i] = Idle]
    /\ UNCHANGED << batches, jobs, blogs, faults, cfg >>
    /\ Schedule(i)

\* after the loop: jobs = await getJobsForBatch(batchId), which throws when
\* the select fails; return { completed, failed, results }
BatchReturn ==
    /\ call.fn = "processBatch"
    /\ ~ call.result.continueProcessing
    /\ \A k \in Invocations : At(k, "idle")
    /\ \E ok \in StoreOutcomes :
         /\ Charge(ok)
         /\ call' = IF ok
                    THEN [call EXCEPT
                            !.fn = "returned",
                            !.result.completed =
                               Cardinality(JobsWithStatus(call.input.batchId,
                                                          {"completed"})),
                            !.result.failed =
                               Cardinality(JobsWithStatus(call.input.batchId,
                                                          {"failed"}))]
                    ELSE [call EXCEPT !.fn = "threw"]
    /\ UNCHANGED << batches, jobs, blogs, inv, sched, cfg >>

\* one call of processBatch on the batch under test; store calls may fail
InitBatch ==
    /\ InitStore
    /\ cfg = [overlap |-> FALSE, maxFaults |-> MaxFaults, maxSwitches |-> 0,
              anyFetch |-> TRUE, compare |-> FALSE]
    /\ \E b \in DispatchedBatches, nw \in BOOLEAN :
         call = [fn |-> "processBatch", kind |-> "batch",
                 input |-> [batchId |-> b, useNeuronwriter |-> nw],
                 result |-> [continueProcessing |-> TRUE, results |-> << >>,
                             completed |-> 0, failed |-> 0]]

NextBatch ==
    \/ \E i \in Invocations : BatchStart(i) \/ BatchDeliver(i) \/ Work(i)
    \/ BatchReturn

SpecBatch == InitBatch /\ [][NextBatch]_vars

\* ------------------------------------------------------------------------
\* processOneStep and the Edge Function handler side by side
\* ------------------------------------------------------------------------
\* what the fetchers of one stage return to both dispatchers: the research
\* text, or the analysis text and the SEO analysis, or the first and the
\* second draft; "fail" and None stand for a fetcher that fails
Fetched ==
    {[stage |-> "research", research |-> x, analysis |-> "fail", nw |-> None,
      draft1 |-> None, draft2 |-> None] : x \in ResearchTexts \cup {"fail"}}
    \cup
    {[stage |-> "analyze", research |-> "fail", analysis |-> x, nw |-> a,
      draft1 |-> None, draft2 |-> None] :
        x \in AnalysisTexts \cup {"fail"},
        a \in {None} \cup {Some(y) : y \in Analyses}}
    \cup
    {[stage |-> "write", research |-> "fail", analysis |-> "fail", nw |-> None,
      draft1 |-> d1, draft2 |-> d2] :
        d1 \in {None} \cup {Some(d) : d \in Drafts},
        d2 \in {None} \cup {Some(d) : d \in Drafts}}

\* the step of invocation i gets from its fetcher what f holds
FetchedAsGiven(i, f) ==
    /\ inv[i].pc = "r_fetch" =>
          /\ f.stage = "research"
          /\ IF f.research = "fail" THEN inv'[i].pc = "r_catch"
             ELSE inv'[i].pc = "r_save" /\ inv'[i].raw = f.research
    /\ inv[i].pc = "a_analyze" =>
          /\ f.stage = "analyze"
          /\ IF f.analysis = "fail"
             THEN inv'[i].pc = "a_catch" /\ inv'[i].err = "OpenRouter API error"
             ELSE /\ inv'[i].pc # "a_catch"
                  /\ inv'[i].analyzed = f.analysis
                  /\ inv'[i].pc = "a_saveNw" => inv'[i].nw = f.nw /\ f.nw # None
                  /\ inv'[i].pc = "a_save" =>
                        ~ inv[i].useNeuronwriter \/ f.nw = None
    /\ inv[i].pc = "a_nw" =>
          IF f.nw = None THEN inv'[i].pc = "a_save"
          ELSE inv'[i].pc = "a_saveNw" /\ inv'[i].nw = f.nw
    /\ inv[i].pc = "w_generate" =>
          /\ f.stage = "write"
          /\ IF f.draft1 = None THEN inv'[i].pc = "w_catch"
             ELSE inv'[i].pc # "w_catch" /\ inv'[i].blogResult = f.draft1
    /\ inv[i].pc = "w_regenerate" =>
          IF f.draft2 = None THEN inv'[i].pc = "w_catch"
          ELSE inv'[i].pc # "w_catch" /\ inv'[i].blogResult = f.draft2

\* the pipeline state invocation i leaves: the job it selected, the job
\* statuses, the batch counters and the batch statuses
PipelineState(i) ==
    [job |-> inv[i].job,
     status |-> [j \in Jobs |-> jobs[j].status],
     completed_keywords |-> [b \in Batches |-> batches[b].completed_keywords],
     failed_keywords |-> [b \in Batches |-> batches[b].failed_keywords],
     batch |-> [b \in Batches |-> batches[b].status]]

\* the calls of processOneStep that bring the store to the state the two
\* dispatchers start from
Before(i) == call.fn = "before" /\ Step(i)

\* the store as it is and what the fetchers will return are fixed, and
\* processOneStep is called
CompareBegin(i) ==
    /\ call.fn = "before"
    /\ \A k \in Invocations : At(k, "idle")
    /\ \A k \in Invocations : k >= i
    /\ \E b \in DispatchedBatches, nw \in BOOLEAN, f \in Fetched :
         /\ call' = [fn |-> "processOneStep", kind |-> "compare",
                     input |-> [batchId |-> b, useNeuronwriter |-> nw,
                                fetched |-> f,
                                store |-> [batches |-> batches, jobs |-> jobs,
                                           blogs |-> blogs]],
                     result |-> [library |-> None, edge |-> None]]
         /\ inv' = [inv EXCEPT ![i] =
                      [Idle EXCEPT !.pc = "setRunning", !.batchId = b,
                                   !.useNeuronwriter = nw]]
    /\ UNCHANGED << batches, jobs, blogs, faults, cfg >>
    /\ Schedule(i)

\* processOneStep at work
LibrarySide(i) ==
    /\ call.fn = "processOneStep"
    /\ Work(i)
    /\ FetchedAsGiven(i, call.input.fetched)

\* processOneStep has returned: what it leaves is kept, the store is put
\* back as it was and the Edge Function is called
CompareSwitch(i) ==
    /\ call.fn = "processOneStep"
    /\ At(i, "done")
    /\ call' = [call EXCEPT !.fn = "handler",
                            !.result.library = Some(PipelineState(i))]
    /\ batches' = call.input.store.batches
    /\ jobs' = call.input.store.jobs
    /\ blogs' = call.input.store.blogs
    /\ inv' = [inv EXCEPT ![i] =
                 [Idle EXCEPT !.pc = "setRunning",
                              !.batchId = call.input.batchId,
                              !.useNeuronwriter = call.input.useNeuronwriter]]
    /\ UNCHANGED << faults, cfg >>
    /\ Schedule(i)

\* the handler of the Edge Function at work
EdgeSide(i) ==
    /\ call.fn = "handler"
    /\ EdgeWork(i)
    /\ FetchedAsGiven(i, call.input.fetched)

\* the handler has responded: what it leaves is kept
CompareEnd(i) ==
    /\ call.fn = "handler"
    /\ At(i, "done")
    /\ call' = [call EXCEPT !.fn = "compared",
                            !.result.edge = Some(PipelineState(i))]
    /\ inv' = [inv EXCEPT ![i] = Idle]
    /\ UNCHANGED << batches, jobs, blogs, faults, cfg >>
    /\ Schedule(i)

\* every store call succeeds; the fetchers may return every draft and
\* every SEO analysis
InitCompare ==
    /\ InitStore
    /\ cfg = [overlap |-> FALSE, maxFaults |-> 0, maxSwitches |-> 0,
              anyFetch |-> FALSE, compare |-> TRUE]
    /\ call = [fn |-> "before", kind |-> "compare", input |-> << >>,
               result |-> << >>]

NextCompare ==
    \E i \in Invocations :
       \/ Before(i)
       \/ CompareBegin(i)
       \/ LibrarySide(i)
       \/ CompareSwitch(i)
       \/ EdgeSide(i)
       \/ CompareEnd(i)

SpecCompare == InitCompare /\ [][NextCompare]_vars

\* ------------------------------------------------------------------------
\* The pure functions applied on their own
\* ------------------------------------------------------------------------
\* occurrences of one term in a content, at most
MaxCount == 4

\* lengths of recommendedTerms: no term, half a critical tier, the critical
\* tier, two important terms, the important tier, one and five supporting
TermListLens == {0, 5, 10, 12, 25, 26, 30}

\* the recommended term of rank r (1-based)
Term(r) == IF r = 1 THEN << "habitto" >> ELSE << ToString(r) >>

\* the term of rank r as the article writes it
Written(r) == IF r = 1 THEN << "Habitto" >> ELSE Term(r)

TermList(n) == [r \in 1..n |-> Term(r)]

\* the occurrences of the term of rank r: critical terms k[1] (odd ranks)
\* and k[2] (even ranks), the others k[3] and k[4]
CountOf(input, r) ==
    IF r <= 10 THEN (IF r % 2 = 1 THEN input.k[1] ELSE input.k[2])
    ELSE (IF r % 2 = 1 THEN input.k[3] ELSE input.k[4])

RECURSIVE Repeat(_, _)
Repeat(text, n) == IF n = 0 THEN << >> ELSE text \o Repeat(text, n - 1)

RECURSIVE ContentFrom(_, _)
\* a content in which the term of rank r occurs CountOf(input, r) times
ContentFrom(input, r) ==
    IF r > input.len THEN << >>
    ELSE Repeat(Written(r), CountOf(input, r)) \o ContentFrom(input, r + 1)

\* the inputs of the scorer: a term list and the occurrences of its terms
ScoreInputs ==
    {[len |-> n, k |-> k] : n \in TermListLens, k \in [1..4 -> 0..MaxCount]}

AnalysisOf(input) ==
    [recommendedTerms |-> TermList(input.len), competitorHeadings |-> << >>,
     wordCountTarget |-> 100, queryId |-> "q1"]

\* calculateScore(content, analysis)
ApplyCalculateScore ==
    /\ call.fn = "none"
    /\ call.kind = "terms"
    /\ call' = [call EXCEPT
                  !.fn = "calculateScore",
                  !.result = calculateScore(ContentFrom(call.input, 1),
                                            AnalysisOf(call.input))]
    /\ UNCHANGED << batches, jobs, blogs, inv, faults, sched, cfg >>

\* paragraphs of an article, at most
MaxParas == 4

\* the paragraphs articles are made of: a keyword of the account page; of
\* the account and the card page; of the reviews page, the home page and
\* the app page; a heading; a paragraph of 32 characters with a keyword of
\* the advisor page; a paragraph that has a link already; a paragraph that
\* is a keyword of the account page and nothing else
ParagraphKinds ==
    << << F50, "kinri" >>,
       << F50, "kinri", "kangen" >>,
       << F50, "kuchikomi", "Habitto", "apuri" >>,
       << "#", F50, "kinri" >>,
       << "filler30", "soudan" >>,
       KinriLink \o << F50, "kinri" >>,
       << "kinri" >> >>

\* the inputs of the link placers: the kinds of an article's paragraphs
ArticleInputs == UNION {[1..n -> 1..Len(ParagraphKinds)] : n \in 0..MaxParas}

\* the article of an input
ArticleOf(input) == Join([i \in 1..Len(input) |-> ParagraphKinds[input[i]]])

\* suggestLinks(articleContent) of the library
ApplySuggestLinks ==
    /\ call.fn = "none"
    /\ call.kind = "article"
    /\ call' = [call EXCEPT !.fn = "suggestLinks",
                            !.result = suggestLinks(ArticleOf(call.input))]
    /\ UNCHANGED << batches, jobs, blogs, inv, faults, sched, cfg >>

\* suggestLinks(articleContent) of the Edge Function
ApplyEdgeSuggestLinks ==
    /\ call.fn = "none"
    /\ call.kind = "article"
    /\ call' = [call EXCEPT !.fn = "EdgeSuggestLinks",
                            !.result = EdgeSuggestLinks(ArticleOf(call.input))]
    /\ UNCHANGED << batches, jobs, blogs, inv, faults, sched, cfg >>

\* pieces of a text with links, at most
MaxPieces == 3

\* the pieces texts with links are made of: a link to the account page;
\* one to the same page without the trailing slash and with another anchor;
\* one to the card page; one to https://www.habitto.com; one to the account
\* page over http; prose
LinkPieces ==
    << KinriLink,
       Markup(<< "chochiku", "kouza" >>, StripSlash(UrlAccount)),
       Markup(<< "kangen" >>, UrlCard),
       Markup(<< "Habitto" >>, StripSlash(UrlHome)),
       Markup(<< "kinri" >>, << "http://" >> \o Tail(UrlAccount)),
       << "filler30" >> >>

\* the inputs of the post-processor: the pieces of a text
LinkTextInputs == UNION {[1..n -> 1..Len(LinkPieces)] : n \in 0..MaxPieces}

RECURSIVE Concat(_)
\* the concatenation of a sequence of texts
Concat(texts) == IF texts = << >> THEN << >> ELSE Head(texts) \o Concat(Tail(texts))

\* the text of an input
LinkTextOf(input) == Concat([i \in 1..Len(input) |-> LinkPieces[input[i]]])

\* dedupeInternalLinks(content)
ApplyDedupeInternalLinks ==
    /\ call.fn = "none"
    /\ call.kind = "links"
    /\ call' = [call EXCEPT !.fn = "dedupeInternalLinks",
                            !.result = dedupeInternalLinks(LinkTextOf(call.input))]
    /\ UNCHANGED << batches, jobs, blogs, inv, faults, sched, cfg >>

\* one function, one input, no pipeline run
InitPure ==
    /\ InitStore
    /\ cfg = [overlap |-> FALSE, maxFaults |-> 0, maxSwitches |-> 0,
              anyFetch |-> FALSE, compare |-> FALSE]
    /\ \/ \E x \in ScoreInputs :
             call = [fn |-> "none", kind |-> "terms", input |-> x,
                     result |-> << >>]
       \/ \E x \in ArticleInputs :
             call = [fn |-> "none", kind |-> "article", input |-> x,
                     result |-> << >>]
       \/ \E x \in LinkTextInputs :
             call = [fn |-> "none", kind |-> "links", input |-> x,
                     result |-> << >>]

NextPure ==
    \/ ApplyCalculateScore
    \/ ApplySuggestLinks
    \/ ApplyEdgeSuggestLinks
    \/ ApplyDedupeInternalLinks

SpecPure == InitPure /\ [][NextPure]_vars

\* ------------------------------------------------------------------------
\* Properties
\* ------------------------------------------------------------------------
\* the stage a program counter belongs to, "none" for the dispatcher's own
StageOf(pc) ==
    CASE pc \in {"r_mark", "r_fetch", "r_save", "r_catch"} -> "research"
      [] pc \in {"a_read", "a_analyze", "a_nw", "a_saveNw", "a_save", "a_catch"}
           -> "analyze"
      [] pc \in {"w_read", "w_generate", "w_regenerate", "w_save", "w_complete",
                 "w_incRead", "w_incWrite", "w_catch", "w_failRead", "w_failWrite"}
           -> "write"
      [] OTHER -> "none"

\* C1: with calls that do not overlap, and whichever fetcher or store call
\* fails, every change of a job's persisted status is one step along
\* pending -> researching -> analyzing -> writing -> completed or a jump to
\* failed from a status that is not terminal; a job never leaves completed
\* or failed.
C1_StatusTransitions ==
    [][\A j \in Jobs :
         \/ jobs'[j].status = jobs[j].status
         \/ << jobs[j].status, jobs'[j].status >> \in
              { << "pending", "researching" >>, << "researching", "analyzing" >>,
                << "analyzing", "writing" >>, << "writing", "completed" >> }
         \/ /\ jobs'[j].status = "failed"
            /\ jobs[j].status \in {"pending", "researching", "analyzing", "writing"}]_vars

\* C2: in every reachable state, under any interleaving of dispatcher
\* invocations, every batch has
\* completed_keywords + failed_keywords <= total_keywords.
C2_CountersWithinTotal ==
    \A b \in Batches :
      batches[b].completed_keywords + batches[b].failed_keywords
        <= batches[b].total_keywords

\* C3: the dispatcher sets a batch's status to completed or failed only
\* when the batch's counters sum to total_keywords, it does set it when it
\* finds no job to process and the counters sum to total_keywords, and a
\* batch whose status is completed or failed has counters that sum to
\* total_keywords.
C3_TerminalIffCounted ==
    /\ [](\A b \in Batches :
            batches[b].status \in Terminal =>
              batches[b].completed_keywords + batches[b].failed_keywords
                = batches[b].total_keywords)
    /\ [][\A i \in Invocations :
            /\ At(i, "countJobs") /\ faults' = faults /\ Running(i)'
            /\ inv'[i].pc # "countJobs"
            => (inv'[i].pc = "finalize" <=>
                  batches[inv[i].batchId].completed_keywords
                    + batches[inv[i].batchId].failed_keywords
                    = batches[inv[i].batchId].total_keywords)]_vars

\* C4: when a job of the batch is researching, analyzing or writing, the
\* dispatcher selects the oldest such job and never a pending one; only
\* when no job is in progress does it select the oldest pending job.  A job
\* left in analyzing by an interrupted invocation is therefore processed
\* before any pending job.
C4_InProgressFirst ==
    [][\A i \in Invocations :
         inv[i].job = 0 /\ inv'[i].job # 0 =>
           inv'[i].job =
             IF JobsWithStatus(inv[i].batchId, InProgress) # {}
             THEN Oldest(JobsWithStatus(inv[i].batchId, InProgress))
             ELSE Oldest(JobsWithStatus(inv[i].batchId, {"pending"}))]_vars

\* C5: an invocation changes the persisted fields of at most one job, the
\* one it selected, and runs one stage for it: the job it works on and the
\* stage it is in never change during the call, and every other job, of
\* this batch or another, and every other batch stay as they are.
C5_OneJobOneStage ==
    [][/\ \A j \in Jobs :
            jobs'[j] # jobs[j] =>
              \E i \in Invocations :
                Running(i) /\ inv[i].job = j /\ StageOf(inv[i].pc) # "none"
       /\ \A i \in Invocations :
            /\ inv[i].job # 0 /\ Running(i)' => inv'[i].job = inv[i].job
            /\ StageOf(inv[i].pc) # "none" /\ StageOf(inv'[i].pc) # "none" =>
                 StageOf(inv'[i].pc) = StageOf(inv[i].pc)
            /\ StageOf(inv[i].pc) # "none" /\ inv'[i].pc = "done" =>
                 /\ Val(inv'[i].result).jobId \in {0, inv[i].job}
                 /\ Val(inv'[i].result).step \in {NULL, StageOf(inv[i].pc)}
       /\ \A b \in Batches :
            batches'[b] # batches[b] =>
              \E i \in Invocations : Running(i) /\ inv[i].batchId = b]_vars

\* C5, reached: a call has returned from the Research stage of the first
\* job, which is now analyzing, and the other jobs are as they were created
C5_Witness ==
    \E i \in Invocations :
      /\ At(i, "done")
      /\ Val(inv[i].result).step = "research"
      /\ Val(inv[i].result).nextStep = "analyze"
      /\ jobs[1].status = "analyzing"
      /\ \A j \in Jobs \ {1} : jobs[j] = InitJobs[j]
      /\ batches[2] = InitBatches[2]

\* C6: processOneStep never raises: whatever store or fetcher call fails,
\* a call that ends hands its caller a StepResult, and a failure caught by
\* the dispatcher is reported with status 'processing' and the error
\* message, never as 'completed' or 'no_work'.
C6_AlwaysStepResult ==
    [][\A i \in Invocations :
         Running(i) /\ ~Running(i)' =>
           \/ inv'[i] = Idle
           \/ /\ inv'[i].pc = "done"
              /\ inv'[i].result # None
              /\ Val(inv'[i].result).status \in {"processing", "completed", "no_work"}
              /\ Val(inv'[i].result).error # NULL =>
                   /\ Val(inv'[i].result).status = "processing"
                   /\ ~Val(inv'[i].result).batchComplete
              /\ faults' = faults + 1 =>
                   /\ Val(inv'[i].result).status = "processing"
                   /\ Val(inv'[i].result).error \notin {NULL, ""}]_vars

\* C6, reached: the update of the batch status failed and the call has
\* returned the failure as a 'processing' result with the message
C6_Witness ==
    \E i \in Invocations :
      /\ At(i, "done")
      /\ faults = 1
      /\ Val(inv[i].result).status = "processing"
      /\ Val(inv[i].result).error = "Failed to update batch status"
      /\ Val(inv[i].result).jobId = 0

\* a call has returned batchComplete = true
BatchCompleteReturned(i) ==
    At(i, "done") /\ Val(inv[i].result).batchComplete

\* C7: with calls that do not overlap, fetcher calls that return and store
\* calls that succeed, some call eventually returns batchComplete = true,
\* and when a call returns it every job of the batch is completed or failed
\* and the batch status is completed or failed.
C7_EventuallyBatchComplete ==
    /\ <>(\E i \in Invocations : BatchCompleteReturned(i))
    /\ [](\A i \in Invocations :
            BatchCompleteReturned(i) =>
              /\ \A j \in Jobs :
                   jobs[j].batch_id = inv[i].batchId => jobs[j].status \in Terminal
              /\ batches[inv[i].batchId].status \in Terminal)

\* C7, reached: batchComplete = true has been returned for a batch with one
\* completed and one failed job
C7_Witness ==
    \E i \in Invocations :
      /\ BatchCompleteReturned(i)
      /\ \E j, k \in Jobs :
           /\ jobs[j].batch_id = inv[i].batchId /\ jobs[j].status = "completed"
           /\ jobs[k].batch_id = inv[i].batchId /\ jobs[k].status = "failed"
      /\ batches[inv[i].batchId].status = "completed"

\* C8: one Write stage calls the writing fetcher at most twice; the second
\* call happens iff the job has SEO data and the first linked draft scores
\* strictly below 60; the second draft's score never leads to a third
\* call; without SEO data there is one generation and the stored score is
\* null.
C8_AtMostOneRetry ==
    [][\A i \in Invocations :
         /\ inv'[i].gens <= 2
         /\ At(i, "w_generate") /\ inv'[i].pc \in {"w_regenerate", "w_save"} =>
              /\ inv'[i].gens = 1
              /\ inv'[i].pc = "w_regenerate" <=>
                   inv[i].nw # None /\ Val(inv'[i].score) < 60
         /\ At(i, "w_regenerate") /\ Running(i)' =>
              \/ inv'[i].pc = "w_catch"
              \/ inv'[i].pc = "w_save" /\ inv'[i].gens = 2
         /\ At(i, "w_save") /\ blogs' # blogs =>
              /\ blogs'[Len(blogs')].neuronwriter_score = inv[i].score
              /\ inv[i].nw = None =>
                   inv[i].gens = 1 /\ blogs'[Len(blogs')].neuronwriter_score = None]_vars

\* C8, reached: the second draft scored below 60 too and is about to be
\* saved, with no third generation
C8_Witness ==
    \E i \in Invocations :
      /\ At(i, "w_save")
      /\ inv[i].gens = 2
      /\ inv[i].score # None
      /\ Val(inv[i].score) < 60

\* C9: every persisted blog has word_count = the character length of its
\* stored content, and internal_links = the links found in that same
\* content; the stored content is the final draft, with its links, of the
\* Write stage that saved it.
C9_DerivedFromStoredContent ==
    [][/\ \A k \in 1..Len(blogs') :
            /\ blogs'[k].word_count = StrLength(blogs'[k].content)
            /\ blogs'[k].internal_links =
                 Urls(SelectSeq(LinkMatches(blogs'[k].content, 1), IsInternal))
       /\ \A i \in Invocations :
            At(i, "w_save") /\ blogs' # blogs =>
              /\ blogs'[Len(blogs')].content = inv[i].content
              /\ blogs'[Len(blogs')].content =
                   WithLinks(Val(inv[i].blogResult).content)]_vars

\* C9, reached: a blog saved after a retry, with a link in its content
C9_Witness ==
    \E i \in Invocations :
      /\ At(i, "w_complete")
      /\ inv[i].gens = 2
      /\ \E k \in 1..Len(blogs) :
           /\ blogs[k].job_id = inv[i].job
           /\ blogs[k].word_count > Len(blogs[k].content)
           /\ Len(blogs[k].internal_links) >= 1

\* C10: no persisted blog has a URL more than once in internal_links,
\* whatever links the draft came with and whatever links were inserted.
C10_NoDuplicateLinks ==
    \A k \in 1..Len(blogs) :
      \A m, n \in 1..Len(blogs[k].internal_links) :
        blogs[k].internal_links[m] = blogs[k].internal_links[n] => m = n

\* ------------------------------------------------------------------------
\* Properties of the scorer
\* ------------------------------------------------------------------------
\* a contribution << n, d >> is the number v
IsPct(pct, v) == pct[1] = v * pct[2]

\* the case of C13: 30 terms, every critical term at least 3 times, no
\* important and no supporting term in the content
C13_Case ==
    /\ call.fn = "calculateScore"
    /\ call.input.len = 30
    /\ call.input.k[1] >= 3
    /\ call.input.k[2] >= 3
    /\ call.input.k[3] = 0
    /\ call.input.k[4] = 0

\* C13 as stated: with 10 critical, 15 important and 5 supporting terms, a
\* content with every critical term at least 3 times and none of the others
\* scores critical 50, important 0, supporting 20 and percentage 70
C13_SeventyAsStated ==
    C13_Case =>
      /\ IsPct(Contributions(ContentFrom(call.input, 1),
                             AnalysisOf(call.input)).supporting, 20)
      /\ call.result.percentage = 70

\* C13 amended: in that case the supporting tier is not empty and none of
\* its terms occurs, so the contributions are critical 50, important 0,
\* supporting 0, and the percentage is 50
C13_FiftyWhenSupportingAbsent ==
    C13_Case =>
      /\ IsPct(Contributions(ContentFrom(call.input, 1),
                             AnalysisOf(call.input)).critical, 50)
      /\ IsPct(Contributions(ContentFrom(call.input, 1),
                             AnalysisOf(call.input)).important, 0)
      /\ IsPct(Contributions(ContentFrom(call.input, 1),
                             AnalysisOf(call.input)).supporting, 0)
      /\ call.result.percentage = 50

\* the case of C13 with a critical term more than 3 times
C13_Witness ==
    /\ C13_Case
    /\ call.input.k[1] > 3
    /\ call.result.percentage = 50

RECURSIVE SumOfRanks(_, _, _, _)
\* the sum of min(count, cap) over the ranks r..hi of the input
SumOfRanks(input, r, hi, cap) ==
    IF r > hi THEN 0
    ELSE Min(CountOf(input, r), cap) + SumOfRanks(input, r + 1, hi, cap)

\* the number of ranks of lo..hi the term list has
TierSize(input, lo, hi) == Cardinality({r \in 1..input.len : lo <= r /\ r <= hi})

\* weight * points / max as << numerator, denominator >>, the full weight
\* for an empty tier
Share(weight, points, max) ==
    IF max = 0 THEN << weight, 1 >> ELSE << weight * points, max >>

\* the sum of three fractions
Sum3(a, b, c) ==
    << a[1] * b[2] * c[2] + b[1] * a[2] * c[2] + c[1] * a[2] * b[2],
       a[2] * b[2] * c[2] >>

\* 50*c/(3*|C|) + 30*i/(2*|I|) + 20*s/|S| for the counts of the input
Blend(input) ==
    Sum3(Share(50, SumOfRanks(input, 1, Min(input.len, 10), 3),
               3 * TierSize(input, 1, 10)),
         Share(30, SumOfRanks(input, 11, Min(input.len, 25), 2),
               2 * TierSize(input, 11, 25)),
         Share(20, SumOfRanks(input, 26, input.len, 1),
               TierSize(input, 26, input.len)))

\* m is the fraction q rounded to the nearest integer, halves upward
IsRounded(m, q) == 2 * q[2] * m <= 2 * q[1] + q[2] /\ 2 * q[1] + q[2] < 2 * q[2] * (m + 1)

\* C14: the percentage is round(50*c/(3*|C|) + 30*i/(2*|I|) + 20*s/|S|) with
\* c, i and s the capped sums of the occurrence counts, an empty tier counts
\* its full weight, and the result is an integer of 0..100
C14_WeightedBlend ==
    call.fn = "calculateScore" =>
      /\ call.result.percentage \in 0..100
      /\ IsRounded(call.result.percentage, Blend(call.input))

\* three non-empty tiers with different counts, a critical term above the
\* cap, and a blend whose fraction is at least one half
C14_Witness ==
    /\ call.fn = "calculateScore"
    /\ call.input.len = 30
    /\ call.input.k = << 4, 2, 3, 0 >>
    /\ 2 * (Blend(call.input)[1] % Blend(call.input)[2]) >= Blend(call.input)[2]
    /\ call.result.percentage \in 1..99

\* the ranks lo..hi of the input's term list
Ranks(input, lo, hi) ==
    [i \in 1..(IF Min(input.len, hi) >= lo THEN Min(input.len, hi) - lo + 1 ELSE 0)
       |-> lo + i - 1]

\* the terms of the ranks
TermsOf(ranks) == [i \in 1..Len(ranks) |-> Term(ranks[i])]

\* the critical terms with fewer than need occurrences, then the first five
\* important terms with none, from the counts of the input
MissingByCount(input, need) ==
    TermsOf(SelectSeq(Ranks(input, 1, 10), LAMBDA r : CountOf(input, r) < need))
    \o Take(TermsOf(SelectSeq(Ranks(input, 11, 25),
                              LAMBDA r : CountOf(input, r) = 0)), 5)

\* C15 as stated: missingTerms is exactly the critical terms with zero
\* occurrences followed by the first five important terms with zero
\* occurrences, and no supporting term
C15_MissingAreAbsent ==
    call.fn = "calculateScore" =>
      call.result.missingTerms = MissingByCount(call.input, 1)

\* C15 amended: missingTerms is exactly the critical terms with fewer than
\* three occurrences followed by the first five important terms with zero
\* occurrences, and no supporting term
C15_MissingAreBelowTarget ==
    call.fn = "calculateScore" =>
      call.result.missingTerms = MissingByCount(call.input, 3)

\* a critical term with one occurrence is reported, more than five
\* important terms are absent and the supporting terms are absent too
C15_Witness ==
    /\ call.fn = "calculateScore"
    /\ call.input.len = 30
    /\ call.input.k = << 1, 3, 0, 0 >>
    /\ Len(call.result.missingTerms) = 10

\* ------------------------------------------------------------------------
\* Properties of the link placers
\* ------------------------------------------------------------------------
\* no two entries of links have the same url
NoUrlTwice(links) ==
    \A a, b \in 1..Len(links) : a # b => links[a].url # links[b].url

\* C16: for every article the list suggestLinks returns has no URL twice
\* and at most the maximum number of entries, 6 in the library and 5 in the
\* Edge Function
C16_DistinctUrlsWithinMax ==
    /\ call.fn = "suggestLinks" =>
          NoUrlTwice(call.result) /\ Len(call.result) <= MaxLinks
    /\ call.fn = "EdgeSuggestLinks" =>
          NoUrlTwice(call.result) /\ Len(call.result) <= EdgeMaxLinks

\* an article whose last two paragraphs both name a keyword of the account
\* page: the second of them gets the card page
C16_Witness ==
    /\ call.fn = "suggestLinks"
    /\ call.input = << 3, 1, 1, 2 >>
    /\ Len(call.result) = 3
    /\ \E k \in 1..3 : call.result[k].url = UrlCard

\* ------------------------------------------------------------------------
\* Properties of the post-processor
\* ------------------------------------------------------------------------
\* the internal links of a text, as the Write stage extracts them
InternalLinks(text) == SelectSeq(LinkMatches(text, 1), IsInternal)

RECURSIVE FirstOccurrences(_, _)
\* the links whose url, trailing slash stripped, no earlier link has
FirstOccurrences(links, seenUrls) ==
    IF links = << >> THEN << >>
    ELSE (IF StripSlash(Head(links).url) \in seenUrls THEN << >>
          ELSE << Head(links) >>)
         \o FirstOccurrences(Tail(links),
                             seenUrls \cup {StripSlash(Head(links).url)})

RECURSIVE PlainFrom(_, _)
\* one round of PlainFrom
PlainStep(text, i, j, k) ==
    IF LinkAt(text, i, j, k)
    THEN SubSeq(text, i + 1, j - 1) \o PlainFrom(text, k + 1)
    ELSE << text[i] >> \o PlainFrom(text, i + 1)

\* the close of the parenthesis for the bracket that closes at j
PlainClose(text, i, j) == PlainStep(text, i, j, NextAtom(text, ")", j + 2))

\* the prose of a text: every link replaced by its anchor text
PlainFrom(text, i) ==
    IF i > Len(text) THEN << >>
    ELSE PlainClose(text, i, NextAtom(text, "]", i))

\* C17: in the text dedupeInternalLinks returns, every internal URL the
\* input links (compared with the trailing slash stripped) is linked exactly
\* once, by the link of its first occurrence, and the other occurrences are
\* their anchor text as plain prose
C17_FirstLinkKept ==
    call.fn = "dedupeInternalLinks" =>
      /\ InternalLinks(call.result)
           = FirstOccurrences(InternalLinks(LinkTextOf(call.input)), {})
      /\ PlainFrom(call.result, 1) = PlainFrom(LinkTextOf(call.input), 1)

\* ------------------------------------------------------------------------
\* Properties of the Blog rows and of the finalization
\* ------------------------------------------------------------------------
\* the rows of simple_blogs of a job
BlogsOf(j) == {k \in 1..Len(blogs) : blogs[k].job_id = j}

\* C11: after any sequence of invocations, a Write stage run again after an
\* interruption included, every completed job has exactly one Blog row and
\* no job has more than one
C11_OneBlogPerCompletedJob ==
    \A j \in Jobs :
       /\ Cardinality(BlogsOf(j)) <= 1
       /\ jobs[j].status = "completed" => Cardinality(BlogsOf(j)) = 1

\* invocation i ends with the response that reports the batch complete
Finalizes(i) ==
    /\ inv[i].pc = "finalize"
    /\ inv'[i].pc = "done"
    /\ Val(inv'[i].result).batchComplete

\* C12: when the dispatcher finalizes a batch, the batch status is failed
\* if every job of the batch is failed, and completed if at least one job
\* is completed
C12_FinalStatusFollowsJobs ==
    [][\A i \in Invocations :
         Finalizes(i) =>
           /\ (\A j \in Jobs : jobs'[j].batch_id = inv[i].batchId
                                   => jobs'[j].status = "failed")
                => batches'[inv[i].batchId].status = "failed"
           /\ (\E j \in Jobs : /\ jobs'[j].batch_id = inv[i].batchId
                                /\ jobs'[j].status = "completed")
                => batches'[inv[i].batchId].status = "completed"]_vars

\* the position of a status along pending -> researching -> analyzing ->
\* writing -> completed
Progress(status) ==
    CASE status = "pending" -> 0
      [] status = "researching" -> 1
      [] status = "analyzing" -> 2
      [] status = "writing" -> 3
      [] status = "completed" -> 4
      [] OTHER -> 5

\* C18: when invocations for the same batch overlap, the persisted status
\* of a job never moves backward along pending -> researching -> analyzing
\* -> writing -> completed and never leaves completed or failed
C18_NoRegressionUnderOverlap ==
    [][\A j \in Jobs :
         /\ jobs[j].status \in Terminal => jobs'[j].status = jobs[j].status
         /\ jobs'[j].status # "failed"
              => Progress(jobs'[j].status) >= Progress(jobs[j].status)]_vars

\* invocation i is in the middle of a stage of job j
Processing(i, j) == Running(i) /\ StageOf(inv[i].pc) # "none" /\ inv[i].job = j

\* C19: a job that one invocation in flight is processing is not selected
\* by another invocation that starts before the first one finishes: no
\* stage of a job is run by two invocations at the same time
C19_OneInvocationPerJob ==
    \A j \in Jobs : \A i1, i2 \in Invocations :
       Processing(i1, j) /\ Processing(i2, j) => i1 = i2

\* the jobs of batch b that are completed
CompletedJobs(b) ==
    {j \in Jobs : jobs[j].batch_id = b /\ jobs[j].status = "completed"}

\* C20: the counter update at the end of the Write stage is a read followed
\* by a write of the value read plus one, so that of two invocations that
\* finish the Write stage of two different jobs of a batch concurrently the
\* later write wins: the counter is written with the value this invocation
\* read earlier plus one, whatever it holds by then
C20_LastWriterWins ==
    [][\A i \in Invocations :
         At(i, "w_incWrite") /\ inv'[i].pc = "done"
           => batches'[inv[i].batchId].completed_keywords = inv[i].cur + 1]_vars

\* two invocations have finished the Write stage of two different jobs of
\* one batch, both jobs are completed and completed_keywords is only 1
C20_Witness ==
    \E i1, i2 \in Invocations : \E j1, j2 \in Jobs :
       /\ i1 # i2 /\ j1 # j2
       /\ inv[i1].pc = "done" /\ inv[i1].job = j1
       /\ inv[i2].pc = "done" /\ inv[i2].job = j2
       /\ jobs[j1].batch_id = jobs[j2].batch_id
       /\ CompletedJobs(jobs[j1].batch_id) = {j1, j2}
       /\ batches[jobs[j1].batch_id].completed_keywords = 1
       /\ batches[jobs[j1].batch_id].failed_keywords = 0

\* the row one uninterrupted Research stage leaves for job j when research()
\* returns text: nothing but the text, the status and the start
ResearchedRow(j, text) ==
    [InitJobs[j] EXCEPT !.status = "analyzing", !.research_raw = text,
                        !.started_at = jobs[j].started_at]

\* the row one uninterrupted Analyze stage leaves for job j when
\* analyzeResearch() returns text and the SEO analysis nw (None: no payload)
AnalyzedRow(j, text, nw) ==
    [InitJobs[j] EXCEPT !.status = "writing",
                        !.research_raw = jobs[j].research_raw,
                        !.research_analyzed = text,
                        !.neuronwriter_data = nw,
                        !.started_at = jobs[j].started_at]

\* the counters of a simple_batches row
Counters(row) == << row.completed_keywords, row.failed_keywords >>

\* C21: resuming Research or Analyze is idempotent.  The Research stage
\* run on a job found in researching, and the Analyze stage run on a job
\* found in analyzing, whatever an interrupted invocation has left (the SEO
\* payload left being the one this run obtains: the same fetcher results),
\* end with the job's row as one uninterrupted run leaves it: the stage
\* output overwritten, the status advanced once, nothing else set; and no
\* step of either stage changes the batch's counters
C21_ResumeIsIdempotent ==
    [][\A i \in Invocations :
         /\ /\ At(i, "r_save")
            /\ inv[i].jobStatus = "researching"
            /\ jobs'[inv[i].job].status = "analyzing"
            => jobs'[inv[i].job] = ResearchedRow(inv[i].job, inv[i].raw)
         /\ /\ At(i, "a_save")
            /\ jobs[inv[i].job].status = "analyzing"
            /\ jobs'[inv[i].job].status = "writing"
            /\ jobs[inv[i].job].neuronwriter_data = inv[i].nw
            => jobs'[inv[i].job]
                 = AnalyzedRow(inv[i].job, inv[i].analyzed, inv[i].nw)
         /\ StageOf(inv[i].pc) \in {"research", "analyze"} /\ inv'[i] # inv[i]
            => Counters(batches'[inv[i].batchId])
                 = Counters(batches[inv[i].batchId])]_vars

\* a Research stage has finished on a job that was found in researching
C21_Witness ==
    \E i \in Invocations :
       /\ inv[i].pc = "done"
       /\ inv[i].jobStatus = "researching"
       /\ Val(inv[i].result).step = "research"
       /\ Val(inv[i].result).nextStep = "analyze"
       /\ jobs[inv[i].job].status = "analyzing"
       /\ ~Falsy(jobs[inv[i].job].research_raw)

\* C22: no exception escapes a stage handler.  An invocation that ends
\* inside a stage ends with the StepResult of that stage's handler, never
\* with the one the dispatcher's catch block builds, and when that result
\* reports an error the handler has marked the job failed
C22_HandlersCatchEverything ==
    [][\A i \in Invocations :
         StageOf(inv[i].pc) # "none" /\ inv'[i].pc = "done"
           => /\ Val(inv'[i].result).step = StageOf(inv[i].pc)
              /\ Val(inv'[i].result).jobId = inv[i].job
              /\ Val(inv'[i].result).error # NULL
                   => jobs'[inv[i].job].status = "failed"]_vars

\* C23: when research() fails, or the update that saves its result fails,
\* the Research stage goes to its catch block with nothing written, and
\* the catch block, its own update succeeding, leaves the job failed with
\* the error message stored, research_raw not written and both counters of
\* the batch as they were
C23_ResearchFailure ==
    [][\A i \in Invocations :
         /\ At(i, "r_fetch") /\ inv'[i].pc \notin {"r_fetch", "r_save", "idle"}
            => inv'[i].pc = "r_catch" /\ inv'[i].err # NULL /\ jobs' = jobs
         /\ At(i, "r_save") /\ faults' # faults /\ inv'[i].pc # "idle"
            => inv'[i].pc = "r_catch" /\ inv'[i].err # NULL /\ jobs' = jobs
         /\ At(i, "r_catch") /\ faults' = faults /\ inv'[i] # inv[i]
            => /\ jobs'[inv[i].job].status = "failed"
               /\ jobs'[inv[i].job].error = inv[i].err
               /\ jobs'[inv[i].job].research_raw = NULL
               /\ Counters(batches'[inv[i].batchId])
                    = Counters(batches[inv[i].batchId])
               /\ inv'[i].pc = "done"
               /\ Val(inv'[i].result).error = inv[i].err]_vars

\* one job has failed in the Research stage because research() failed and
\* another because saving the text failed; neither has a text and the
\* batch's counters are still 0
C23_Witness ==
    \E j1, j2 \in Jobs :
       /\ jobs[j1].batch_id = jobs[j2].batch_id
       /\ jobs[j1].status = "failed" /\ jobs[j2].status = "failed"
       /\ jobs[j1].error = "OpenRouter API error"
       /\ jobs[j2].error = "Failed to save research"
       /\ jobs[j1].research_raw = NULL /\ jobs[j2].research_raw = NULL
       /\ Counters(batches[jobs[j1].batch_id]) = << 0, 0 >>

\* the statements of doWriteStep inside its try block
WriteTry ==
    {"w_read", "w_generate", "w_regenerate", "w_import", "w_save",
     "w_complete", "w_incRead", "w_incWrite"}

\* invocation i takes a step and is not killed in it
Steps(i) == inv'[i] # inv[i] /\ inv'[i].pc # "idle"

\* C24: whenever the Write stage fails (missing brief, writing fetcher
\* error, or a store error because of which the Blog is not saved or the
\* job or the batch is not updated) the stage goes to its catch block, and the catch block, its own store
\* calls succeeding, leaves the job failed with an error message,
\* failed_keywords increased by exactly one and completed_keywords unchanged
C24_WriteFailure ==
    [][\A i \in Invocations :
         /\ inv[i].pc \in WriteTry /\ faults' # faults /\ Steps(i)
              /\ jobs' = jobs /\ blogs' = blogs /\ batches' = batches
            => inv'[i].pc = "w_catch" /\ inv'[i].err # NULL
         /\ At(i, "w_read") /\ Falsy(jobs[inv[i].job].research_analyzed)
              /\ Steps(i)
            => inv'[i].pc = "w_catch" /\ inv'[i].err # NULL
         /\ inv[i].pc \in {"w_generate", "w_regenerate"} /\ Steps(i)
              /\ inv'[i].gens = inv[i].gens
            => inv'[i].pc = "w_catch" /\ inv'[i].err # NULL
         /\ At(i, "w_save") /\ blogs' = blogs /\ Steps(i)
            => inv'[i].pc = "w_catch" /\ inv'[i].err # NULL
         /\ At(i, "w_catch") /\ faults' = faults /\ Steps(i)
            => /\ inv[i].err # NULL
               /\ jobs'[inv[i].job].status = "failed"
               /\ jobs'[inv[i].job].error = inv[i].err
               /\ inv'[i].pc = "w_failRead"
         /\ At(i, "w_failRead") /\ faults' = faults /\ Steps(i)
            => inv'[i].pc = "w_failWrite"
         /\ At(i, "w_failWrite") /\ faults' = faults /\ Steps(i)
            => /\ inv'[i].pc = "done"
               /\ jobs'[inv[i].job].status = "failed"
               /\ batches'[inv[i].batchId].failed_keywords
                    = batches[inv[i].batchId].failed_keywords + 1
               /\ batches'[inv[i].batchId].completed_keywords
                    = batches[inv[i].batchId].completed_keywords]_vars

\* a text that is absent: null or empty
Absent(text) == text = NULL \/ text = ""

\* the positions of the Analyze stage from its first fetch on, and those of
\* the Write stage from its first fetch on
AnalyzeFetching == {"a_analyze", "a_nw", "a_saveNw", "a_save"}
WriteFetching == WriteTry \ {"w_read"}

\* C25: the Analyze stage on a job whose raw research text is absent calls
\* no fetcher: it throws a data-integrity error from its first statement,
\* the job is marked failed with that message (the catch block's update
\* succeeding) and no job without a research text is ever in writing; the
\* same holds for the Write stage on a job without a synthesized brief
C25_AbsentInputFailsBeforeFetching ==
    /\ [][\A i \in Invocations :
            /\ At(i, "a_read") /\ Absent(jobs[inv[i].job].research_raw)
                 /\ Steps(i)
               => inv'[i].pc = "a_catch" /\ inv'[i].err = "No research data found"
            /\ At(i, "w_read") /\ Absent(jobs[inv[i].job].research_analyzed)
                 /\ Steps(i)
               => /\ inv'[i].pc = "w_catch"
                  /\ inv'[i].err = "No analyzed research found"
            /\ inv[i].pc \in {"a_catch", "w_catch"}
                 /\ inv[i].err \in {"No research data found",
                                    "No analyzed research found"}
                 /\ faults' = faults /\ Steps(i)
               => /\ jobs'[inv[i].job].status = "failed"
                  /\ jobs'[inv[i].job].error = inv[i].err]_vars
    /\ [](\A i \in Invocations :
            /\ inv[i].pc \in AnalyzeFetching
                 => ~Absent(jobs[inv[i].job].research_raw)
            /\ inv[i].pc \in WriteFetching
                 => ~Absent(jobs[inv[i].job].research_analyzed))
    /\ [](\A j \in Jobs :
            /\ jobs[j].status = "writing" => ~Absent(jobs[j].research_raw)
            /\ jobs[j].status = "completed"
                 => ~Absent(jobs[j].research_analyzed))

\* one job has failed in the Analyze stage for its empty research text and
\* another in the Write stage for its empty brief, and no Blog was saved
C25_Witness ==
    \E j1, j2 \in Jobs :
       /\ jobs[j1].status = "failed" /\ jobs[j2].status = "failed"
       /\ Absent(jobs[j1].research_raw)
       /\ jobs[j1].error = "No research data found"
       /\ jobs[j1].research_analyzed = NULL
       /\ ~Absent(jobs[j2].research_raw)
       /\ Absent(jobs[j2].research_analyzed)
       /\ jobs[j2].error = "No analyzed research found"
       /\ blogs = << >>

\* C26: in the Analyze stage with the SEO analysis enabled, when the
\* synthesis has succeeded and the SEO analysis fails or runs into its
\* timeout, the stage goes on to its final update without a payload, and
\* that update, when it succeeds, stores the brief and moves the job to
\* writing, leaving the SEO payload of the row as it was; the job is not
\* marked failed
C26_SeoFailureIsTolerated ==
    [][\A i \in Invocations :
         /\ inv[i].pc \in {"a_analyze", "a_nw"} /\ inv[i].useNeuronwriter
              /\ Steps(i) /\ inv'[i].pc # "a_nw"
              /\ inv'[i].analyzed # NULL /\ inv'[i].nw = None
            => /\ inv'[i].pc = "a_save"
               /\ inv'[i].err = NULL
               /\ jobs' = jobs
         /\ At(i, "a_save") /\ inv[i].useNeuronwriter /\ inv[i].nw = None
              /\ faults' = faults /\ Steps(i)
            => /\ jobs'[inv[i].job]
                    = [jobs[inv[i].job] EXCEPT
                         !.status = "writing",
                         !.research_analyzed = inv[i].analyzed]
               /\ inv'[i].pc = "done"
               /\ Val(inv'[i].result).nextStep = "write"
               /\ Val(inv'[i].result).error = NULL]_vars

\* an Analyze stage called with the SEO analysis enabled has returned, no
\* store call has failed, and the job is in writing with its brief and
\* without an SEO payload
C26_Witness ==
    \E i \in Invocations :
       /\ inv[i].pc = "done"
       /\ inv[i].useNeuronwriter
       /\ faults = 0
       /\ Val(inv[i].result).step = "analyze"
       /\ Val(inv[i].result).nextStep = "write"
       /\ jobs[inv[i].job].status = "writing"
       /\ jobs[inv[i].job].research_analyzed = "brief"
       /\ jobs[inv[i].job].neuronwriter_data = None

\* C27: when the synthesis fails or runs into its hard timeout, the Analyze
\* stage fails whatever the SEO analysis does: it goes to its catch block
\* with nothing written, and the catch block, its update succeeding,
\* leaves the job failed with the error message, research_analyzed not
\* written and the job not in writing
C27_SynthesisFailureFailsTheStage ==
    [][\A i \in Invocations :
         /\ At(i, "a_analyze") /\ Steps(i) /\ inv'[i].analyzed = NULL
            => /\ inv'[i].pc = "a_catch"
               /\ inv'[i].err \in {"OpenRouter API error",
                                   "Analysis timeout (45s)"}
               /\ jobs' = jobs
         /\ At(i, "a_catch") /\ faults' = faults /\ Steps(i)
            => /\ jobs'[inv[i].job].status = "failed"
               /\ jobs'[inv[i].job].error = inv[i].err
               /\ jobs'[inv[i].job].research_raw = jobs[inv[i].job].research_raw
               /\ jobs'[inv[i].job].research_analyzed = NULL
               /\ inv'[i].pc = "done"
               /\ Val(inv'[i].result).error = inv[i].err]_vars

\* one job has failed in the Analyze stage on the failure of the synthesis
\* and another on its timeout; both keep their research text and have no
\* brief
C27_Witness ==
    \E j1, j2 \in Jobs :
       /\ jobs[j1].status = "failed" /\ jobs[j2].status = "failed"
       /\ jobs[j1].error = "OpenRouter API error"
       /\ jobs[j2].error = "Analysis timeout (45s)"
       /\ ~Absent(jobs[j1].research_raw) /\ ~Absent(jobs[j2].research_raw)
       /\ jobs[j1].research_analyzed = NULL
       /\ jobs[j2].research_analyzed = NULL

\* C28: in the Analyze stage with the SEO analysis enabled the two fetches
\* are in flight together: the SEO analysis is started before the
\* synthesis has resolved, so no invocation is ever at the point where the
\* synthesis has returned its text and the SEO analysis is still to be
\* called
C28_FetchesInFlightTogether ==
    \A i \in Invocations :
       ~(/\ inv[i].useNeuronwriter
         /\ At(i, "a_nw")
         /\ inv[i].analyzed # NULL)

\* C29: after a regeneration the Write stage goes on to save, without a
\* third attempt, with the title, the linked content and the locally
\* computed score of one and the same draft, the one writeBlog returned
\* last, whether that score is higher than the first or not; and the Blog
\* row it inserts holds exactly these three
C29_SecondDraftIsStored ==
    [][\A i \in Invocations :
         /\ At(i, "w_regenerate") /\ Steps(i) /\ inv'[i].pc # "w_catch"
            => /\ inv'[i].pc = "w_save"
               /\ inv'[i].gens = 2
               /\ \E d \in Drafts :
                    /\ inv'[i].blogResult = Some(d)
                    /\ inv'[i].content = LinkedDraft[d]
                    /\ inv'[i].score = Some(DraftScore[d][Val(inv[i].nw)])
         /\ At(i, "w_save") /\ inv[i].gens = 2 /\ blogs' # blogs
            => /\ Len(blogs') = Len(blogs) + 1
               /\ blogs'[Len(blogs')].job_id = inv[i].job
               /\ blogs'[Len(blogs')].title = Val(inv[i].blogResult).title
               /\ blogs'[Len(blogs')].content
                    = LinkedDraft[Val(inv[i].blogResult)]
               /\ blogs'[Len(blogs')].neuronwriter_score
                    = Some(DraftScore[Val(inv[i].blogResult)][Val(inv[i].nw)])]_vars

\* a Write stage that regenerated has completed its job, and the Blog it
\* stored has a score below the threshold: the second draft was kept
\* although it is not acceptable either
C29_Witness ==
    \E i \in Invocations : \E k \in 1..Len(blogs) :
       /\ inv[i].pc = "done"
       /\ inv[i].gens = 2
       /\ Val(inv[i].result).nextStep = "completed"
       /\ blogs[k].job_id = inv[i].job
       /\ blogs[k].neuronwriter_score # None
       /\ Val(blogs[k].neuronwriter_score) < MIN_ACCEPTABLE_SCORE
       /\ jobs[inv[i].job].status = "completed"

\* C30: in the Edge Function's Write stage the import for an official score
\* is best-effort.  Whatever the import does, the stage goes on to save;
\* when it fails or its response has no score the score to store stays the
\* locally computed percentage, when its response has a score that
\* official score is the one to store; and the Blog row inserted holds the
\* score so chosen
C30_OfficialScoreOrLocal ==
    [][\A i \in Invocations :
         /\ At(i, "w_import") /\ Steps(i)
            => /\ inv'[i].pc = "w_save"
               /\ inv'[i].score = IF inv'[i].content_score # None
                                   THEN inv'[i].content_score
                                   ELSE inv[i].score
         /\ At(i, "w_save") /\ blogs' # blogs
            => blogs'[Len(blogs')].neuronwriter_score = inv[i].score]_vars

\* ------------------------------------------------------------------------
\* Properties of the Link Placer of the Edge Function
\* ------------------------------------------------------------------------
\* the priority of the page of a url in the catalog of the Edge Function
EdgePriorityOf(url) ==
    LET k == CHOOSE k \in 1..Len(EDGE_HABITTO_PAGES) : EDGE_HABITTO_PAGES[k].url = url
    IN EDGE_HABITTO_PAGES[k].priority

\* link a is not after link b in the order (priority, paragraph)
NotAfter(a, b) ==
    \/ EdgePriorityOf(a.url) < EdgePriorityOf(b.url)
    \/ /\ EdgePriorityOf(a.url) = EdgePriorityOf(b.url)
       /\ a.paragraph <= b.paragraph

\* links a and b are at least NearbyParagraphs paragraphs apart
FarApart(a, b) ==
    \/ a.paragraph - b.paragraph >= NearbyParagraphs
    \/ b.paragraph - a.paragraph >= NearbyParagraphs

\* the selection links of the candidates all found in paragraphs
PlacedInOrder(links, paragraphs, all) ==
    /\ \A k \in 1..Len(links) :
          /\ \E c \in 1..Len(all) : Pushed(all[c]) = links[k]
          /\ ~ StartsWithHash(paragraphs[links[k].paragraph + 1])
          /\ StrLength(paragraphs[links[k].paragraph + 1]) >= EdgeMinParagraphLen
          /\ ~ HasLinkMarkup(paragraphs[links[k].paragraph + 1])
    /\ \A k \in 1..(Len(links) - 1) : NotAfter(links[k], links[k + 1])
    /\ all # << >> =>
          /\ links # << >>
          /\ \A c \in 1..Len(all) : NotAfter(links[1], all[c])
    /\ Len(links) >= Min(ClusteredLinks,
                         Cardinality({all[c].url : c \in 1..Len(all)}))
    /\ \A k \in (ClusteredLinks + 1)..Len(links) :
          \A m \in 1..(k - 1) : FarApart(links[k], links[m])

\* C31: the Link Placer of the Edge Function takes the candidates in the
\* order (priority, paragraph index), both ascending; its first two
\* selections are unconstrained, every later one lies at least three
\* paragraphs away from every insertion point chosen before it, and no
\* selected paragraph is a heading, shorter than the minimum length or has a
\* link already
C31_SpreadAfterTwo ==
    call.fn = "EdgeSuggestLinks" =>
       PlacedInOrder(call.result, Split(ArticleOf(call.input)),
                     AllOpportunities(Split(ArticleOf(call.input)), 0))

\* an article whose first paragraph takes the account and the card page;
\* the reviews page is passed over in the third paragraph and placed in the
\* fourth, where the home page then finds it too near
C31_Witness ==
    /\ call.fn = "EdgeSuggestLinks"
    /\ call.input = << 2, 7, 3, 3 >>
    /\ Len(call.result) = 3
    /\ call.result[1].paragraph = 0
    /\ call.result[2].paragraph = 0
    /\ call.result[3].paragraph = 3
    /\ call.result[3].url = UrlPeople

\* ------------------------------------------------------------------------
\* Properties of the brand validation
\* ------------------------------------------------------------------------
\* the Write stage of the Edge Function, from the draft on, as it goes when
\* its store calls succeed
WriteGoesOn(i) ==
    /\ inv[i].pc \in {"w_generate", "w_regenerate"}
         /\ inv'[i].brandValidation # None =>
          /\ inv'[i].content = EdgeProcessedDraft[Val(inv'[i].blogResult)]
          /\ inv'[i].pc = "w_regenerate" <=>
                /\ inv[i].pc = "w_generate"
                /\ inv'[i].score # None
                /\ NeedsRetry(Val(inv'[i].score))
    /\ inv[i].pc = "w_save" /\ faults' = faults
         /\ BlogsOf(inv[i].job) = {} =>
          /\ blogs' = Append(blogs,
                             BlogRow(inv[i].job, Val(inv[i].blogResult).title,
                                     inv[i].content,
                                     Val(inv[i].blogResult).metaDescription,
                                     inv[i].score))
          /\ inv'[i].pc = "w_complete"
    /\ inv[i].pc = "w_complete" /\ faults' = faults =>
          /\ jobs'[inv[i].job].status = "completed"
          /\ inv'[i].pc = "w_incRead"
    /\ inv[i].pc = "w_incWrite" /\ faults' = faults =>
          batches'[inv[i].batchId].completed_keywords
            = batches[inv[i].batchId].completed_keywords + 1

\* C32: the result of validateBrandKeywords never influences the pipeline
\* state: with a draft that passes and with one that fails, the Write stage
\* stores the Blog of the post-processed draft, marks the job completed,
\* increments completed_keywords, and asks for another draft only for a
\* first draft whose score is under the threshold
C32_ValidationIsLoggedOnly ==
    [][\A i \in Invocations : Steps(i) => WriteGoesOn(i)]_vars

\* two jobs completed, each with its Blog and counted: the content of one
\* passes the brand validation, the content of the other fails it
C32_Witness ==
    \E a, b \in 1..Len(blogs) :
       /\ blogs[a].job_id # blogs[b].job_id
       /\ jobs[blogs[a].job_id].status = "completed"
       /\ jobs[blogs[b].job_id].status = "completed"
       /\ validateBrandKeywords(blogs[a].content).isValid
       /\ ~ validateBrandKeywords(blogs[b].content).isValid
       /\ batches[JobBatch(blogs[a].job_id)].completed_keywords = 2
       /\ JobBatch(blogs[b].job_id) = JobBatch(blogs[a].job_id)

\* ------------------------------------------------------------------------
\* Properties of the counters and of the terminal statuses
\* ------------------------------------------------------------------------
\* no invocation is in progress
Quiet == \A i \in Invocations : ~ Running(i)

\* C33: in a run of non-overlapping processOneStep invocations in which
\* every store operation succeeds, after every invocation the batch's
\* completed_keywords is the number of its jobs with status completed
C33_CompletedCounted ==
    Quiet /\ faults = 0 /\ ~ cfg.overlap =>
       \A b \in Batches :
          batches[b].completed_keywords = Cardinality(CompletedJobs(b))

\* after an invocation whose Write stage completed the second job of the
\* batch, with no store operation failed
C33_Witness ==
    /\ Quiet
    /\ faults = 0
    /\ \E i \in Invocations :
          /\ inv[i].pc = "done"
          /\ Val(inv[i].result).nextStep = "completed"
          /\ batches[inv[i].batchId].completed_keywords = 2
          /\ Cardinality(CompletedJobs(inv[i].batchId)) = 2

\* C34: the terminal status of a batch is absorbing: once the status of a
\* batch is completed or failed, no step of a later dispatcher invocation
\* changes it, not even for a while
C34_TerminalStatusAbsorbing ==
    [][\A b \in Batches :
          batches[b].status \in Terminal =>
             batches'[b].status = batches[b].status]_vars

\* C35: in every state in which no invocation is in progress, a job has a
\* stored error message exactly if its status is failed
C35_ErrorIffFailed ==
    Quiet => \A j \in Jobs : jobs[j].error # NULL <=> jobs[j].status = "failed"

\* C36: no job with status failed has a Blog row: an execution of the
\* Write stage, the first or one run again after an interruption, that has
\* inserted a Blog or finds one inserted for its job never ends with the
\* job marked failed
C36_NoBlogOfFailedJob ==
    \A j \in Jobs : jobs[j].status = "failed" => BlogsOf(j) = {}

\* ------------------------------------------------------------------------
\* Properties of the dispatcher when no job is left
\* ------------------------------------------------------------------------
\* the jobs of batch b that are pending or in progress
OpenJobs(b) == JobsWithStatus(b, InProgress \cup {"pending"})

\* what the selection and the count of invocation i do in a step whose
\* read succeeds: a job is passed over only if none has the status asked
\* for, the job selected is pending or in progress, and with no job pending
\* or in progress every job is completed or failed and the finalization is
\* next; 'no_work' is returned only past a job that is pending or in
\* progress, which the selection did not see
SelectsWhatIsOpen(i) ==
    /\ inv[i].pc = "selectInProgress" /\ inv'[i].pc = "selectPending"
          /\ faults' = faults => JobsWithStatus(inv[i].batchId, InProgress) = {}
    /\ inv[i].pc = "selectPending" /\ inv'[i].pc = "countJobs"
          /\ faults' = faults => JobsWithStatus(inv[i].batchId, {"pending"}) = {}
    /\ inv[i].pc \in {"selectInProgress", "selectPending"}
          /\ inv'[i].job # 0 =>
            /\ inv'[i].jobStatus \in InProgress \cup {"pending"}
            /\ inv'[i].pc \in {"r_mark", "a_read", "w_read"}
    /\ inv[i].pc = "countJobs" /\ faults' = faults
          /\ OpenJobs(inv[i].batchId) = {} =>
            /\ \A j \in Jobs : jobs[j].batch_id = inv[i].batchId =>
                                 jobs[j].status \in Terminal
            /\ inv'[i].pc = "finalize"
    /\ inv'[i].pc = "done" /\ Val(inv'[i].result).status = "no_work" =>
            /\ inv[i].pc = "countJobs"
            /\ Val(inv'[i].result).jobId = 0
            /\ OpenJobs(inv[i].batchId) # {}

\* the finalization of invocation i reports the batch complete
ReportsComplete(i) ==
    /\ inv'[i].pc = "done"
    /\ Val(inv'[i].result).status = "completed"
    /\ Val(inv'[i].result).batchComplete

EntriesOf(j) ==
    {n \in 1..Len(call.result.results) : call.result.results[n].keyword = j}

\* C39: when processBatch returns, its results list has exactly one entry
\* for every job of the batch that reached completed or failed during the
\* call, with success = true for a completed job and success = false and
\* the error for a failed one, and the completed and failed counts returned
\* sum to the number of jobs of the batch
C39_OneResultPerFinishedJob ==
    call.fn = "returned" =>
       /\ \A j \in Jobs :
             jobs[j].batch_id = call.input.batchId =>
               IF jobs[j].status \in Terminal
               THEN /\ Cardinality(EntriesOf(j)) = 1
                    /\ \A n \in EntriesOf(j) :
                          /\ call.result.results[n].success
                                = (jobs[j].status = "completed")
                          /\ jobs[j].status = "failed" =>
                                call.result.results[n].error = jobs[j].error
               ELSE EntriesOf(j) = {}
       /\ call.result.completed + call.result.failed
            = Cardinality({j \in Jobs : jobs[j].batch_id = call.input.batchId})

\* ------------------------------------------------------------------------
\* Properties of the two dispatchers side by side
\* ------------------------------------------------------------------------
\* C38: started from the same batch and job state and given the same
\* fetcher outcomes, every store operation succeeding, the Edge Function
\* handler and processOneStep select the same job and leave the same job
\* statuses, the same batch counters and the same batch status
C38_SamePipelineState ==
    call.kind = "compare" /\ call.fn = "compared" =>
       call.result.edge = call.result.library
====
